---- MODULE Spec2Model ----
(***************************************************************************)
(* Model of the citation-graph service of Learned_Index_Papers:            *)
(* backend/process_data.py (Corpus: graph build, title resolver, neighbour *)
(* queries).                                                               *)
(*                                                                         *)
(* The record store (data/papers, data/citations, data/tags, data/tldr,    *)
(* data/tldr_ja) is the environment; Corpus._load_data reads it once and   *)
(* the query methods read the in-memory graph plus the overlay folders.    *)
(***************************************************************************)
EXTENDS Integers, Sequences, FiniteSets, TLC

(***************************************************************************)
(* Bounds of the model.                                                    *)
(***************************************************************************)
\* paper identifiers are 0..MaxId; their numeric order stands for the
\* lexicographic order of the identifier strings
MaxId == 2
\* longest citationPaperIds list of a CitationEdge record
MaxRefs == 2
\* the seed's CitationEdge record of the build specification lists up to
\* MaxListed elements
MaxListed == 3
\* citationCount ranges over 0..MaxCount
MaxCount == 1
\* longest string handed to _lcs_length and _lcss_length
MaxLen == 3

\* most tokens of a venue string handed to normalize_venue
MaxTokens == 4

\* longest tag list in an answer of the language model
MaxAnswer == 2

\* longest tag list handed to apply_hierarchy
MaxTags == 3

\* the number of pages after which the server has answered with a page
\* without `next`
MaxPages == 3

\* BASE_PID, the seed paper
BASE_PID == 0

PaperIds == 0..MaxId

\* an element of a citationPaperIds list that is not hashable (a nested JSON
\* list or object): `x in set` and set.update raise TypeError on it
BadItem == MaxId + 1

Range(s) == {s[i] : i \in 1..Len(s)}

SeqsUpTo(S, n) == UNION {[1..k -> S] : k \in 0..n}

\* all orders in which a Python set with the elements of S can be iterated
Orders(S) == {o \in [1..Cardinality(S) -> S] : Range(o) = S}

VARIABLES
    citationFiles,  \* data/citations/<id>.json
    paperFiles,     \* data/papers/<id>.json
    tagFiles,       \* data/tags/<id>.json
    tldrFiles,      \* data/tldr/<id>.json
    tldrJaFiles,    \* data/tldr_ja/<id>.json
    authorInfoFiles, \* data/author_info/<name>.json
    phase,          \* "start" before Corpus(), "built" after, "served" once
                    \* a request has been answered
    papers,         \* Corpus.papers     : paperId -> Paper
    papers_keys,    \* the keys of Corpus.papers in insertion order, the order
                    \* in which self.papers.values() is iterated
    cited_by,       \* Corpus.cited_by   : paperId -> list of paperIds
    cites,          \* Corpus.cites      : paperId -> list of paperIds
    args,           \* arguments of the last call
    result          \* what the last call returned

vars == <<citationFiles, paperFiles, tagFiles, tldrFiles, tldrJaFiles,
          authorInfoFiles, phase, papers, papers_keys, cited_by, cites, args, result>>

files == <<citationFiles, paperFiles, tagFiles, tldrFiles, tldrJaFiles,
           authorInfoFiles>>

graph == <<papers, papers_keys, cited_by, cites>>

(***************************************************************************)
(* Records of the store.                                                   *)
(***************************************************************************)
\* a file is missing, unreadable (json.load or validation raises), or ok
NoFile == [kind |-> "missing"]

BadFile == [kind |-> "malformed"]

\* CitationInfo: {"paperId": ..., "citationPaperIds": [...]}
CitationInfo(ids) == [kind |-> "ok", citationPaperIds |-> ids]

\* Paper (pydantic model); an Optional field is a sequence of length 0 or 1,
\* venue None and venue "" are both the empty sequence (both are falsy)
Paper(pid, title, year, venue, authors, count) ==
    [kind |-> "ok", paperId |-> pid, title |-> title, year |-> year,
     venue |-> venue, authors |-> authors, citationCount |-> count,
     tldr |-> <<>>, tldr_ja |-> <<>>, tags |-> <<>>]

EmptyMap == [x \in {} |-> <<>>]

\* the author display names of the model (none holds "/", "\" or ":", which
\* the file name of an author_info record replaces by "_")
AuthorNames == {"Kraska", "Ding"}

NoAuthorInfo == [a \in AuthorNames |-> NoFile]

NoResult == [op |-> "none"]

NoArgs == [op |-> "none"]

(***************************************************************************)
(* Corpus._load_data                                                       *)
(***************************************************************************)
InSeq(x, s) == \E i \in 1..Len(s) : s[i] = x

\* set.update(citing_paper_ids): the elements are added one by one; an
\* unhashable element raises TypeError, the elements before it stay added
RECURSIVE UpdateSet(_, _)
UpdateSet(S, ids) ==
    IF ids = <<>> \/ Head(ids) = BadItem
    THEN S
    ELSE UpdateSet(S \cup {Head(ids)}, Tail(ids))

\* the elements of a record's citationPaperIds list that are identifiers
Listed(rec) ==
    IF rec.kind = "ok" THEN Range(rec.citationPaperIds) \ {BadItem} ELSE {}

\* papers_to_load: the seed's citing papers (when the seed's citation file
\* exists and loads) plus BASE_PID itself
PapersToLoad(cf) ==
    (IF cf[BASE_PID].kind = "ok"
     THEN UpdateSet({}, cf[BASE_PID].citationPaperIds)
     ELSE {}) \cup {BASE_PID}

\* the first loop: every paper file of papers_to_load that exists and
\* validates is stored under the paperId it holds
LoadPapers(pf, toLoad) ==
    LET loaded == {q \in toLoad : pf[q].kind = "ok"}
    IN  [p \in {pf[q].paperId : q \in loaded} |->
            pf[CHOOSE q \in loaded : pf[q].paperId = p]]

\* the first loop again: the order in which the keys enter self.papers (a
\* Paper record holds the identifier it is filed under, so no key is
\* entered twice)
LoadedKeys(pf, ord) ==
    LET valid(q) == pf[q].kind = "ok"
        loaded == SelectSeq(ord, valid)
    IN  [i \in 1..Len(loaded) |-> pf[loaded[i]].paperId]

\* a variant of AddCites that records only the first citing paper of each
\* citation_id (the append is nested under the `not in self.cites` test)
RECURSIVE AddCitesFirstOnly(_, _, _)
AddCitesFirstOnly(c, paper_id, filtered) ==
    IF filtered = <<>>
    THEN c
    ELSE LET cid == Head(filtered)
             c1 == IF cid \in DOMAIN c THEN c ELSE (cid :> <<paper_id>>) @@ c
         IN  AddCitesFirstOnly(c1, paper_id, Tail(filtered))

\* lines 163-167: cites[citation_id].append(paper_id) unless already there

RECURSIVE AddCites(_, _, _)
AddCites(c, paper_id, filtered) ==
    IF filtered = <<>>
    THEN c
    ELSE LET cid == Head(filtered)
             c1 == IF cid \in DOMAIN c THEN c ELSE (cid :> <<>>) @@ c
             c2 == IF InSeq(paper_id, c1[cid])
                   THEN c1
                   ELSE [c1 EXCEPT ![cid] = Append(@, paper_id)]
         IN  AddCites(c2, paper_id, Tail(filtered))

\* a variant that keeps every listed identifier
UnfilteredCitationIds(ids, toLoad) == ids

\* filtered_citation_ids = [cid for cid in citation_ids if cid in papers_to_load]
FilteredCitationIds(ids, toLoad) ==
    LET keep(cid) == cid \in toLoad
    IN  SelectSeq(ids, keep)

\* one iteration of the second loop, on the pair g = <<cited_by, cites>>:
\* a missing file is passed over, an exception (unreadable file, unhashable
\* element met by the comprehension) leaves both mappings as they were
LoadCitation(g, paper_id, cf, toLoad) ==
    LET rec == cf[paper_id]
    IN  IF rec.kind # "ok" \/ InSeq(BadItem, rec.citationPaperIds)
        THEN g
        ELSE LET filtered == FilteredCitationIds(rec.citationPaperIds, toLoad)
             IN  << (paper_id :> filtered) @@ g[1],
                    AddCites(g[2], paper_id, filtered) >>

RECURSIVE LoadCitations(_, _, _, _)
LoadCitations(g, ord, cf, toLoad) ==
    IF ord = <<>>
    THEN g
    ELSE LoadCitations(LoadCitation(g, Head(ord), cf, toLoad), Tail(ord), cf, toLoad)

\* the three mappings _load_data leaves, when papers_to_load is iterated in
\* the order ord
Build(cf, pf, ord) ==
    LET toLoad == PapersToLoad(cf)
        g == LoadCitations(<<EmptyMap, EmptyMap>>, ord, cf, toLoad)
    IN  [papers |-> LoadPapers(pf, toLoad), cited_by |-> g[1], cites |-> g[2]]

\* dict.get(paper_id, [])
Adj(m, p) == IF p \in DOMAIN m THEN m[p] ELSE <<>>

\* Corpus.__init__ + _load_data: papers_to_load is a Python set, so the two
\* loops visit it in an order the code does not control
LoadData ==
    /\ phase = "start"
    /\ \E ord \in Orders(PapersToLoad(citationFiles)) :
          LET b == Build(citationFiles, paperFiles, ord)
          IN  /\ papers' = b.papers
              /\ papers_keys' = LoadedKeys(paperFiles, ord)
              /\ cited_by' = b.cited_by
              /\ cites' = b.cites
    /\ phase' = "built"
    /\ UNCHANGED <<files, args, result>>

(***************************************************************************)
(* The record stores the build is checked on.                              *)
(***************************************************************************)
CitationRecords(n) ==
    {NoFile, BadFile} \cup
    {CitationInfo(ids) : ids \in SeqsUpTo(PaperIds \cup {BadItem}, n)}

\* the content of a paper file of the build specification
PlainPaper(p) == Paper(p, <<>>, <<>>, <<>>, <<>>, 0)

NoOverlay == [p \in PaperIds |-> NoFile]

\* the stores of the build specification: any CitationEdge record of up to
\* MaxListed elements for the seed, one of at most one element for its first
\* citing paper, and at most one Paper record that is absent or malformed
Init ==
    /\ \E seedRec \in CitationRecords(MaxListed), nextRec \in CitationRecords(1) :
          citationFiles = [p \in PaperIds |->
                              IF p = BASE_PID THEN seedRec
                              ELSE IF p = BASE_PID + 1 THEN nextRec ELSE NoFile]
    /\ \E bad \in PaperIds, file \in {NoFile, BadFile} :
          \/ paperFiles = [p \in PaperIds |-> PlainPaper(p)]
          \/ paperFiles = [p \in PaperIds |-> IF p = bad THEN file ELSE PlainPaper(p)]
    /\ tagFiles = NoOverlay
    /\ tldrFiles = NoOverlay
    /\ tldrJaFiles = NoOverlay
    /\ authorInfoFiles = NoAuthorInfo
    /\ phase = "start"
    /\ papers = EmptyMap
    /\ papers_keys = <<>>
    /\ cited_by = EmptyMap
    /\ cites = EmptyMap
    /\ args = NoArgs
    /\ result = NoResult

Next == LoadData

Spec == Init /\ [][Next]_vars

(***************************************************************************)
(* normalize_venue.  A venue string is a sequence of tokens separated by   *)
(* single blanks; lead says whether the string begins with white space     *)
(* (which only the removal of a parenthesised year at the start produces). *)
(***************************************************************************)
YearTokens == {"2023", "2024", "2019-20"}        \* (19|20)\d{2}(-\d{2})?

ShortYearTokens == {"'24", "23"}                  \* '?\d{2}

OrdinalTokens == {"10th", "6TH"}                  \* \d+(st|nd|rd|th), any case

ParenYearTokens == {"(2023)", "[2024]"}           \* ( ... year ... ), [ ... year ... ]

WordTokens == {"ICML", "SIGMOD", "Conference"}

VenueTokens ==
    YearTokens \cup ShortYearTokens \cup OrdinalTokens \cup ParenYearTokens
        \cup WordTokens

\* re.sub(r'\s+T\s+', ' ', v): a token of T with white space on both sides is
\* replaced by one blank; the match consumes the white space after the
\* token, so the token right after a removed one is not matched in the same
\* pass.  Result of scanning toks[i..] when prevRemoved tells whether token
\* i-1 was removed.
RECURSIVE SubMiddle(_, _, _, _, _)
SubMiddle(toks, T, lead, i, prevRemoved) ==
    IF i > Len(toks)
    THEN <<>>
    ELSE LET spaceBefore == (i > 1 \/ lead) /\ ~prevRemoved
             hit == toks[i] \in T /\ spaceBefore /\ i < Len(toks)
         IN  IF hit
             THEN SubMiddle(toks, T, lead, i + 1, TRUE)
             ELSE <<toks[i]>> \o SubMiddle(toks, T, lead, i + 1, FALSE)

\* re.sub(r'\s+T$', '', v): the last token, when white space precedes it
SubEnd(v, T) ==
    LET n == Len(v.toks)
    IN  IF n > 0 /\ v.toks[n] \in T /\ (n > 1 \/ v.lead)
        THEN [toks |-> SubSeq(v.toks, 1, n - 1), lead |-> v.lead /\ n > 1]
        ELSE v

\* re.sub(r'^T\s+', '', v): the first token, when white space follows it
SubStart(v, T) ==
    IF Len(v.toks) > 1 /\ v.toks[1] \in T /\ ~v.lead
    THEN [toks |-> Tail(v.toks), lead |-> FALSE]
    ELSE v

SubMid(v, T) == [toks |-> SubMiddle(v.toks, T, v.lead, 1, FALSE), lead |-> v.lead]

\* re.sub(r'\s*\([^)]*(19|20)\d{2}[^)]*\)', '', v) and the same with [ ]:
\* the group goes with the white space before it; the white space after a
\* group that stood first now begins the string
RECURSIVE SubParen(_)
SubParen(v) ==
    IF v.toks = <<>>
    THEN v
    ELSE LET n == Len(v.toks)
             front == SubParen([toks |-> SubSeq(v.toks, 1, n - 1), lead |-> v.lead])
         IN  IF v.toks[n] \in ParenYearTokens
             THEN front
             ELSE [toks |-> Append(front.toks, v.toks[n]),
                   lead |-> IF front.toks = <<>> /\ n > 1 THEN TRUE ELSE front.lead]

\* lines 59-96; the final re.sub(r'\s+', ' ') and strip() drop the leading
\* white space
normalize_venue(venue) ==
    IF venue = <<>>
    THEN venue
    ELSE LET v0 == [toks |-> venue, lead |-> FALSE]
             v1 == SubMid(v0, YearTokens)
             v2 == SubEnd(v1, YearTokens)
             v3 == SubStart(v2, YearTokens)
             v4 == SubParen(v3)
             v5 == SubEnd(v4, ShortYearTokens)
             v6 == SubMid(v5, ShortYearTokens)
             v7 == SubMid(v6, OrdinalTokens)
             v8 == SubStart(v7, OrdinalTokens)
             v9 == SubEnd(v8, OrdinalTokens)
         IN  v9.toks

(***************************************************************************)
(* Corpus._load_tldr_data and the neighbour queries.                       *)
(***************************************************************************)
\* a variant of _load_tldr_data that extends the tag list of the paper it
\* is given instead of replacing it
_load_tldr_data_extending(paper) ==
    LET id == paper.paperId
    IN  [paper EXCEPT
            !.tldr = IF tldrFiles[id].kind = "ok" THEN tldrFiles[id].tldr ELSE @,
            !.tldr_ja = IF tldrJaFiles[id].kind = "ok" THEN tldrJaFiles[id].tldr_ja ELSE @,
            !.tags = IF tagFiles[id].kind = "ok" THEN @ \o tagFiles[id].tags ELSE @]

\* lines 226-260: a new Paper from paper.dict() with tldr, tldr_ja and tags
\* replaced by the overlay record's value where that record exists and loads
_load_tldr_data(paper) ==
    LET id == paper.paperId
    IN  [paper EXCEPT
            !.tldr = IF tldrFiles[id].kind = "ok" THEN tldrFiles[id].tldr ELSE @,
            !.tldr_ja = IF tldrJaFiles[id].kind = "ok" THEN tldrJaFiles[id].tldr_ja ELSE @,
            !.tags = IF tagFiles[id].kind = "ok" THEN tagFiles[id].tags ELSE @]

Min(a, b) == IF a <= b THEN a ELSE b

\* list.sort(key=lambda p: p.citationCount, reverse=True): stable, so equal
\* counts keep their order
InsertByCount(sorted, x) ==
    LET notBelow(e) == e.citationCount >= x.citationCount
        below(e) == e.citationCount < x.citationCount
    IN  SelectSeq(sorted, notBelow) \o <<x>> \o SelectSeq(sorted, below)

RECURSIVE SortByCitationCount(_)
SortByCitationCount(ps) ==
    IF ps = <<>>
    THEN <<>>
    ELSE InsertByCount(SortByCitationCount(SubSeq(ps, 1, Len(ps) - 1)), ps[Len(ps)])

\* papers[:limit]
Take(ps, limit) == SubSeq(ps, 1, Min(limit, Len(ps)))

MapSeq(s, F(_)) == [i \in 1..Len(s) |-> F(s[i])]

\* [self.papers[pid] for pid in ids if pid in self.papers]
LoadedPapers(ids) ==
    LET loaded(pid) == pid \in DOMAIN papers
        get(pid) == papers[pid]
    IN  MapSeq(SelectSeq(ids, loaded), get)

\* a variant of HasAllTags with any() in the place of all()
HasAnyTag(p, tags) == p.tags # <<>> /\ \E i \in 1..Len(tags) : InSeq(tags[i], p.tags)

\* p.tags and all(tag in p.tags for tag in tags)
HasAllTags(p, tags) == p.tags # <<>> /\ \A i \in 1..Len(tags) : InSeq(tags[i], p.tags)

\* p.authors and all(author in p.authors for author in authors)
HasAllAuthors(p, authors) ==
    p.authors # <<>> /\ \A i \in 1..Len(authors) : InSeq(authors[i], p.authors)

\* a variant of InVenues that compares the raw venue strings
InRawVenues(p, venues) ==
    p.venue # <<>> /\ \E i \in 1..Len(venues) : p.venue = venues[i]

\* p.venue and normalize_venue(p.venue) in [normalize_venue(v) for v in venues]
InVenues(p, venues) ==
    p.venue # <<>> /\
    \E i \in 1..Len(venues) : normalize_venue(p.venue) = normalize_venue(venues[i])

\* p.year is not None and p.year >= min_year
NotBefore(p, min_year) == p.year # <<>> /\ p.year[1] >= min_year[1]

\* the tag, author and venue filters, in the order of lines 270-291; an
\* absent or empty filter list filters nothing
FilterTagsAuthorsVenues(ps, tags, authors, venues) ==
    LET byTags(p) == HasAllTags(p, tags)
        byAuthors(p) == HasAllAuthors(p, authors)
        byVenues(p) == InVenues(p, venues)
        f1 == IF tags # <<>> THEN SelectSeq(ps, byTags) ELSE ps
        f2 == IF authors # <<>> THEN SelectSeq(f1, byAuthors) ELSE f1
    IN  IF venues # <<>> THEN SelectSeq(f2, byVenues) ELSE f2

\* a variant of the neighbour view that filters before it truncates
FilterThenLimit(ids, limit, tags, authors, venues) ==
    Take(FilterTagsAuthorsVenues(
            MapSeq(SortByCitationCount(LoadedPapers(ids)), _load_tldr_data),
            tags, authors, venues), limit)

\* lines 265-291 and 298-324: sort, truncate, enrich, then filter
SortLimitFilter(ids, limit, tags, authors, venues) ==
    FilterTagsAuthorsVenues(
        MapSeq(Take(SortByCitationCount(LoadedPapers(ids)), limit), _load_tldr_data),
        tags, authors, venues)

\* a variant of get_cites that applies the year filter of get_cited_by
get_cites_from_year(paper_id, limit, tags, authors, venues, min_year) ==
    LET byYear(p) == NotBefore(p, min_year)
        ps == SortLimitFilter(Adj(cites, paper_id), limit, tags, authors, venues)
    IN  IF min_year # <<>> THEN SelectSeq(ps, byYear) ELSE ps

\* Corpus.get_cites; min_year is accepted and not used
get_cites(paper_id, limit, tags, authors, venues, min_year) ==
    SortLimitFilter(Adj(cites, paper_id), limit, tags, authors, venues)

\* Corpus.get_cited_by
get_cited_by(paper_id, limit, tags, authors, venues, min_year) ==
    LET byYear(p) == NotBefore(p, min_year)
        ps == SortLimitFilter(Adj(cited_by, paper_id), limit, tags, authors, venues)
    IN  IF min_year # <<>> THEN SelectSeq(ps, byYear) ELSE ps

\* limit: int = 2000 (and Query(2000, ge=1, le=2000) in the handlers)
DefaultLimit == 2000

Limits == {1, DefaultLimit}

\* the filter arguments the queries are called with: a list is empty when
\* the argument is absent, min_year is <<>> when it is None
NoFilters == [tags |-> <<>>, authors |-> <<>>, venues |-> <<>>, min_year |-> <<>>]

FilterSettings ==
    {NoFilters,
     [NoFilters EXCEPT !.tags = <<"Learned Index">>],
     [NoFilters EXCEPT !.authors = <<"Kraska">>],
     [NoFilters EXCEPT !.venues = << <<"ICML">> >>],
     [NoFilters EXCEPT !.min_year = <<2020>>],
     [tags |-> <<"Learned Index">>, authors |-> <<"Kraska">>,
      venues |-> << <<"ICML">> >>, min_year |-> <<2020>>]}

GetCites ==
    /\ phase = "built"
    /\ phase' = "served"
    /\ \E paper_id \in PaperIds, limit \in Limits, f \in FilterSettings :
          /\ args' = [op |-> "get_cites", paper_id |-> paper_id, limit |-> limit,
                      filters |-> f]
          /\ result' = [op |-> "get_cites",
                        papers |-> get_cites(paper_id, limit, f.tags, f.authors,
                                             f.venues, f.min_year)]
    /\ UNCHANGED <<files, graph>>

GetCitedBy ==
    /\ phase = "built"
    /\ phase' = "served"
    /\ \E paper_id \in PaperIds, limit \in Limits, f \in FilterSettings :
          /\ args' = [op |-> "get_cited_by", paper_id |-> paper_id, limit |-> limit,
                      filters |-> f]
          /\ result' = [op |-> "get_cited_by",
                        papers |-> get_cited_by(paper_id, limit, f.tags, f.authors,
                                                f.venues, f.min_year)]
    /\ UNCHANGED <<files, graph>>

(***************************************************************************)
(* The record stores the neighbour queries are checked on: readable        *)
(* CitationEdge records for the seed and its first citing paper; the first *)
(* two citing papers have no Paper record or one of the contents below,    *)
(* every other paper a bare record.                                        *)
(***************************************************************************)
\* a paper every filter of FilterSettings lets through
ListedPaper(p, count) ==
    Paper(p, <<>>, <<2020>>, <<"ICML", "2023">>, <<"Kraska">>, count)

\* a paper no filter lets through
BarePaper(p, count) == Paper(p, <<>>, <<>>, <<>>, <<>>, count)

TagRecord(tags) == [kind |-> "ok", tags |-> tags]

Contents == {<<"missing", 0>>} \cup ({"listed", "bare"} \X (0..MaxCount))

FirstCiting == PaperIds \cap {BASE_PID + 1, BASE_PID + 2}

\* the identifiers the CitationEdge records of the neighbour store list
NearIds == FirstCiting \cup {BASE_PID}

PaperFileOf(p, c) ==
    IF c[1] = "missing" THEN NoFile
    ELSE IF c[1] = "listed" THEN ListedPaper(p, c[2]) ELSE BarePaper(p, c[2])

TagFileOf(c) ==
    IF c[1] = "listed" THEN TagRecord(<<"Learned Index">>) ELSE NoFile

InitNeighbors ==
    /\ \E seedRec \in {NoFile} \cup {CitationInfo(ids) : ids \in SeqsUpTo(NearIds, MaxRefs)},
          nextRec \in {NoFile} \cup {CitationInfo(ids) : ids \in SeqsUpTo(NearIds, 1)} :
          citationFiles = [p \in PaperIds |->
                              IF p = BASE_PID THEN seedRec
                              ELSE IF p = BASE_PID + 1 THEN nextRec ELSE NoFile]
    /\ \E c \in [FirstCiting -> Contents] :
          /\ paperFiles = [p \in PaperIds |->
                              IF p \in FirstCiting THEN PaperFileOf(p, c[p])
                              ELSE BarePaper(p, 0)]
          /\ tagFiles = [p \in PaperIds |->
                            IF p \in FirstCiting THEN TagFileOf(c[p]) ELSE NoFile]
    /\ tldrFiles = NoOverlay
    /\ tldrJaFiles = NoOverlay
    /\ authorInfoFiles = NoAuthorInfo
    /\ phase = "start"
    /\ papers = EmptyMap
    /\ papers_keys = <<>>
    /\ cited_by = EmptyMap
    /\ cites = EmptyMap
    /\ args = NoArgs
    /\ result = NoResult

NextNeighbors == LoadData \/ GetCites \/ GetCitedBy

SpecNeighbors == InitNeighbors /\ [][NextNeighbors]_vars

(***************************************************************************)
(* Title resolver: _lcs_length, _lcss_length, best_match_by_title.         *)
(* A string is a sequence of characters.                                   *)
(***************************************************************************)
Chars == {"a", "A", "b"}

\* str.lower()
Lower(c) == IF c = "A" THEN "a" ELSE c

LowerStr(str) == [i \in 1..Len(str) |-> Lower(str[i])]

Max(a, b) == IF a >= b THEN a ELSE b

\* dp[i][0..j] of _lcs_length, as the sequence <<dp[i][0], ..., dp[i][j]>>,
\* from the row above (prev = dp[i-1]) and the character c = s1[i-1]
RECURSIVE LcsRow(_, _, _, _)
LcsRow(prev, c, s2, j) ==
    IF j = 0
    THEN <<0>>
    ELSE LET left == LcsRow(prev, c, s2, j - 1)
         IN  Append(left,
                    IF Lower(c) = Lower(s2[j])
                    THEN prev[j] + 1
                    ELSE Max(prev[j + 1], left[j]))

\* a variant of LcsRow whose mismatch branch forgets dp[i][j-1]
RECURSIVE LcsRowAboveOnly(_, _, _, _)
LcsRowAboveOnly(prev, c, s2, j) ==
    IF j = 0
    THEN <<0>>
    ELSE Append(LcsRowAboveOnly(prev, c, s2, j - 1),
                IF Lower(c) = Lower(s2[j]) THEN prev[j] + 1 ELSE prev[j + 1])

RECURSIVE LcsRows(_, _, _)
LcsRows(s1, s2, i) ==
    IF i = 0
    THEN [j \in 1..(Len(s2) + 1) |-> 0]
    ELSE LcsRow(LcsRows(s1, s2, i - 1), s1[i], s2, Len(s2))

\* a variant of _lcs_length built on LcsRowAboveOnly
RECURSIVE LcsRowsAboveOnly(_, _, _)
LcsRowsAboveOnly(s1, s2, i) ==
    IF i = 0
    THEN [j \in 1..(Len(s2) + 1) |-> 0]
    ELSE LcsRowAboveOnly(LcsRowsAboveOnly(s1, s2, i - 1), s1[i], s2, Len(s2))

_lcs_length_above_only(s1, s2) == LcsRowsAboveOnly(s1, s2, Len(s1))[Len(s2) + 1]

\* lines 173-185: dp[m][n]
_lcs_length(s1, s2) == LcsRows(s1, s2, Len(s1))[Len(s2) + 1]

\* dp[i] of _lcss_length: a mismatch resets the run to 0
LcssRow(prev, c, s2) ==
    [j \in 1..(Len(s2) + 1) |->
        IF j > 1 /\ Lower(c) = Lower(s2[j - 1]) THEN prev[j - 1] + 1 ELSE 0]

RECURSIVE LcssRows(_, _, _)
LcssRows(s1, s2, i) ==
    IF i = 0
    THEN [j \in 1..(Len(s2) + 1) |-> 0]
    ELSE LcssRow(LcssRows(s1, s2, i - 1), s1[i], s2)

RECURSIVE MaxOf(_)
MaxOf(row) == IF row = <<>> THEN 0 ELSE Max(Head(row), MaxOf(Tail(row)))

\* lines 187-201: max_length, the largest entry of the table
RECURSIVE _lcss_length_upto(_, _, _)
_lcss_length_upto(s1, s2, i) ==
    IF i = 0
    THEN 0
    ELSE Max(_lcss_length_upto(s1, s2, i - 1), MaxOf(LcssRows(s1, s2, i)))

_lcss_length(s1, s2) == _lcss_length_upto(s1, s2, Len(s1))

\* Python's order on tuples of integers of equal length
RECURSIVE TupleLess(_, _)
TupleLess(k1, k2) ==
    /\ k1 # <<>>
    /\ \/ Head(k1) < Head(k2)
       \/ Head(k1) = Head(k2) /\ TupleLess(Tail(k1), Tail(k2))

\* a variant of get_sort_key_value that ranks by LCS first, as the
\* docstring of best_match_by_title words it
get_sort_key_value_lcs_first(query, paper) ==
    << 0 - _lcs_length(LowerStr(query), LowerStr(paper.title)),
       0 - _lcss_length(LowerStr(query), LowerStr(paper.title)),
       Len(paper.title), paper.paperId >>

\* lines 208-212: smaller is better
get_sort_key_value(query, paper) ==
    << 0 - _lcss_length(LowerStr(query), LowerStr(paper.title)),
       0 - _lcs_length(LowerStr(query), LowerStr(paper.title)),
       Len(paper.title), paper.paperId >>

\* lines 203-216: None for an empty query; sorted(...)[0] raises IndexError
\* when no paper is loaded; the keys are pairwise different (paperId), so
\* the first element of the sorted list is the one with the least key
best_match_by_title(query) ==
    IF query = <<>>
    THEN [outcome |-> "none", paper |-> <<>>]
    ELSE IF DOMAIN papers = {}
    THEN [outcome |-> "IndexError", paper |-> <<>>]
    ELSE LET best == CHOOSE p \in DOMAIN papers :
                        \A q \in DOMAIN papers :
                            ~TupleLess(get_sort_key_value(query, papers[q]),
                                       get_sort_key_value(query, papers[p]))
         IN  [outcome |-> "paper", paper |-> <<_load_tldr_data(papers[best])>>]

\* the titles and queries of the title specification; the last two are the
\* shortest pair on which the LCSS and the LCS of a query rank two titles
\* in opposite orders (against the title "ab")
TitlePool ==
    {<<>>, <<"a">>, <<"A">>, <<"a", "b">>, <<"b", "a">>, <<"b", "b">>,
     <<"a", "b", "c">>, <<"a", "c", "b", "a", "c">>}

BestMatchByTitle ==
    /\ phase = "built"
    /\ phase' = "served"
    /\ \E query \in TitlePool :
          /\ args' = [op |-> "best_match_by_title", query |-> query]
          /\ result' = [op |-> "best_match_by_title"] @@ best_match_by_title(query)
    /\ UNCHANGED <<files, graph>>

TitledPaper(p, title) == Paper(p, title, <<>>, <<>>, <<>>, 0)

\* the titles of the Paper record of paper p: any of the pool for the seed
\* and the first two citing papers
TitlesOf(p) ==
    IF p \in FirstCiting \cup {BASE_PID} THEN TitlePool ELSE {<<"a">>}

\* the seed's record lists every other paper, or is absent; a paper has no
\* Paper record or one with a title of the pool
InitTitle ==
    /\ \E seedRec \in {NoFile, CitationInfo([i \in 1..MaxId |-> i])} :
          citationFiles = [p \in PaperIds |-> IF p = BASE_PID THEN seedRec ELSE NoFile]
    /\ \E t \in {f \in [PaperIds -> {<<>>} \cup {<<title>> : title \in TitlePool}] :
                    \A p \in PaperIds : f[p] = <<>> \/ f[p][1] \in TitlesOf(p)} :
          paperFiles = [p \in PaperIds |->
                          IF t[p] = <<>> THEN NoFile ELSE TitledPaper(p, t[p][1])]
    /\ tagFiles = NoOverlay
    /\ tldrFiles = NoOverlay
    /\ tldrJaFiles = NoOverlay
    /\ authorInfoFiles = NoAuthorInfo
    /\ phase = "start"
    /\ papers = EmptyMap
    /\ papers_keys = <<>>
    /\ cited_by = EmptyMap
    /\ cites = EmptyMap
    /\ args = NoArgs
    /\ result = NoResult

NextTitle == LoadData \/ BestMatchByTitle

SpecTitle == InitTitle /\ [][NextTitle]_vars

\* the two similarity measures on a pair of strings
Strings == SeqsUpTo(Chars, MaxLen)

InitLcs ==
    /\ citationFiles = NoOverlay
    /\ paperFiles = NoOverlay
    /\ tagFiles = NoOverlay
    /\ tldrFiles = NoOverlay
    /\ tldrJaFiles = NoOverlay
    /\ authorInfoFiles = NoAuthorInfo
    /\ phase = "strings"
    /\ papers = EmptyMap
    /\ papers_keys = <<>>
    /\ cited_by = EmptyMap
    /\ cites = EmptyMap
    /\ \E s1, s2 \in Strings : args = [op |-> "lengths", s1 |-> s1, s2 |-> s2]
    /\ result = NoResult

Lengths ==
    /\ phase = "strings"
    /\ phase' = "measured"
    /\ result' = [op |-> "lengths",
                  lcs |-> _lcs_length(args.s1, args.s2),
                  lcss |-> _lcss_length(args.s1, args.s2)]
    /\ UNCHANGED <<files, graph, args>>

NextLcs == Lengths

SpecLcs == InitLcs /\ [][NextLcs]_vars

(***************************************************************************)
(* The scans over the loaded set and the request handlers.                 *)
(***************************************************************************)
\* [self._load_tldr_data(paper) for paper in self.papers.values()]
EnrichedPapers ==
    [i \in 1..Len(papers_keys) |-> _load_tldr_data(papers[papers_keys[i]])]

\* min_year is None or (p.year is not None and p.year >= min_year)
YearAllows(p, min_year) == min_year = <<>> \/ NotBefore(p, min_year)

\* a variant of get_papers_by_tags that truncates the scan before it sorts
get_papers_by_tags_first_found(tags, limit, min_year) ==
    LET match(p) == HasAllTags(p, tags) /\ YearAllows(p, min_year)
    IN  SortByCitationCount(Take(SelectSeq(EnrichedPapers, match), limit))

\* lines 335-346
get_papers_by_tags(tags, limit, min_year) ==
    LET match(p) == HasAllTags(p, tags) /\ YearAllows(p, min_year)
    IN  Take(SortByCitationCount(SelectSeq(EnrichedPapers, match)), limit)

\* lines 360-371
get_papers_by_authors(authors, limit, min_year) ==
    LET match(p) == HasAllAuthors(p, authors) /\ YearAllows(p, min_year)
    IN  Take(SortByCitationCount(SelectSeq(EnrichedPapers, match)), limit)

\* lines 385-398
get_papers_by_venues(venues, limit, min_year) ==
    LET match(p) == InVenues(p, venues) /\ YearAllows(p, min_year)
    IN  Take(SortByCitationCount(SelectSeq(EnrichedPapers, match)), limit)

\* list.sort / sorted on a list of [key, val] pairs whose keys are tuples
\* of integers: ascending by key, and stable
RECURSIVE StableSort(_)
StableSort(s) ==
    IF s = <<>>
    THEN <<>>
    ELSE LET x == s[Len(s)]
             front == StableSort(SubSeq(s, 1, Len(s) - 1))
             after(e) == TupleLess(x.key, e.key)
             notAfter(e) == ~TupleLess(x.key, e.key)
         IN  SelectSeq(front, notAfter) \o <<x>> \o SelectSeq(front, after)

\* sorted(s, key=Key), returning the elements
SortedBy(s, Key(_)) ==
    LET pair(x) == [key |-> Key(x), val |-> x]
        val(e) == e.val
    IN  MapSeq(StableSort(MapSeq(s, pair)), val)

RECURSIVE Flatten(_)
Flatten(seqs) == IF seqs = <<>> THEN <<>> ELSE Head(seqs) \o Flatten(Tail(seqs))

\* counts[key] = counts.get(key, 0) + 1 on a dict, kept as the sequence of
\* its items in insertion order
Bump(counts, key) ==
    IF \E i \in 1..Len(counts) : counts[i].key = key
    THEN [i \in 1..Len(counts) |->
             IF counts[i].key = key
             THEN [counts[i] EXCEPT !.count = @ + 1] ELSE counts[i]]
    ELSE Append(counts, [key |-> key, count |-> 1])

RECURSIVE BumpAll(_, _)
BumpAll(counts, keys) ==
    IF keys = <<>> THEN counts ELSE BumpAll(Bump(counts, Head(keys)), Tail(keys))

\* the normalised venue a paper is counted under: none when the venue is
\* absent or normalises to the empty string
VenueKeys(p) ==
    IF p.venue # <<>> /\ normalize_venue(p.venue) # <<>>
    THEN <<normalize_venue(p.venue)>> ELSE <<>>

\* the loops of get_all_tags, get_all_authors and get_all_venues: every key
\* of every paper, in scan order
CountOver(ps, Keys(_)) == BumpAll(<<>>, Flatten(MapSeq(ps, Keys)))

\* a variant of MostFrequentFirst without reverse=True
LeastFrequentFirst(x) == <<x.count>>

\* key=lambda x: x[1], reverse=True
MostFrequentFirst(x) == <<0 - x.count>>

\* the alphabetical order of the tag names of the model
TagsInOrder ==
    <<"Bloom Filter", "Cardinality estimation", "Database", "Filter", "GPU",
      "Learned Bloom Filter", "Learned Index", "Multidimensional",
      "Query optimization", "Sketch", "Space-Filling Curve", "Time-series",
      "Unknown">>

TagRank(tag) == CHOOSE i \in 1..Len(TagsInOrder) : TagsInOrder[i] = tag

\* lines 348-358: sorted(tag_counts.items()), the tag names being distinct
get_all_tags ==
    LET tagsOf(p) == p.tags
        alphabetical(x) == <<TagRank(x.key)>>
        entry(x) == [tag |-> x.key, count |-> x.count]
    IN  [op |-> "get_all_tags",
         tags |-> MapSeq(SortedBy(CountOver(EnrichedPapers, tagsOf), alphabetical),
                         entry)]

\* lines 373-383
get_all_authors ==
    LET authorsOf(p) == p.authors
        entry(x) == [author |-> x.key, count |-> x.count]
    IN  [op |-> "get_all_authors",
         authors |-> MapSeq(SortedBy(CountOver(EnrichedPapers, authorsOf),
                                     MostFrequentFirst), entry)]

\* lines 400-411
get_all_venues ==
    LET entry(x) == [venue |-> x.key, count |-> x.count]
    IN  [op |-> "get_all_venues",
         venues |-> MapSeq(SortedBy(CountOver(EnrichedPapers, VenueKeys),
                                    MostFrequentFirst), entry)]

\* an AuthorAffiliation record
AuthorInfo(affiliations) == [kind |-> "ok", affiliations |-> affiliations]

\* lines 413-426 with line 478: the affiliations of the record, [] when the
\* record is absent or unreadable
Affiliations(author_name) ==
    IF authorInfoFiles[author_name].kind = "ok"
    THEN authorInfoFiles[author_name].affiliations ELSE <<>>

\* lines 446-471: one author of one paper
AddAuthor(stats, author, p) ==
    LET known == \E i \in 1..Len(stats) : stats[i].author = author
        s0 == IF known THEN stats
              ELSE Append(stats, [author |-> author, paperCount |-> 0,
                                  totalCitations |-> 0, tags |-> <<>>,
                                  conferences |-> <<>>])
    IN  [i \in 1..Len(s0) |->
            IF s0[i].author = author
            THEN [s0[i] EXCEPT !.paperCount = @ + 1,
                               !.totalCitations = @ + p.citationCount,
                               !.tags = BumpAll(@, p.tags),
                               !.conferences = BumpAll(@, VenueKeys(p))]
            ELSE s0[i]]

RECURSIVE AddAuthors(_, _, _)
AddAuthors(stats, authors, p) ==
    IF authors = <<>>
    THEN stats
    ELSE AddAuthors(AddAuthor(stats, Head(authors), p), Tail(authors), p)

\* a variant of AuthorStats that counts the papers of every year
RECURSIVE AuthorStatsAllYears(_, _, _)
AuthorStatsAllYears(stats, ps, min_year) ==
    IF ps = <<>>
    THEN stats
    ELSE AuthorStatsAllYears(AddAuthors(stats, Head(ps).authors, Head(ps)),
                             Tail(ps), min_year)

\* lines 436-471: the papers that pass the year filter, in insertion order
RECURSIVE AuthorStats(_, _, _)
AuthorStats(stats, ps, min_year) ==
    IF ps = <<>>
    THEN stats
    ELSE AuthorStats(IF YearAllows(Head(ps), min_year)
                     THEN AddAuthors(stats, Head(ps).authors, Head(ps))
                     ELSE stats,
                     Tail(ps), min_year)

\* Corpus.get_author_ranking, lines 428-489
get_author_ranking(min_year) ==
    LET tagEntry(x) == [tag |-> x.key, count |-> x.count]
        confEntry(x) == [conference |-> x.key, count |-> x.count]
        entry(s) ==
            [author |-> s.author, paperCount |-> s.paperCount,
             totalCitations |-> s.totalCitations,
             tags |-> MapSeq(SortedBy(s.tags, MostFrequentFirst), tagEntry),
             conferences |-> MapSeq(SortedBy(s.conferences, MostFrequentFirst),
                                    confEntry),
             affiliations |-> Affiliations(s.author)]
    IN  MapSeq(AuthorStats(<<>>, EnrichedPapers, min_year), entry)

\* the handler, lines 622-638: sort(key=(a, b), reverse=True)
get_author_ranking_handler(sort_by, min_year) ==
    LET byCitations(x) == <<0 - x.totalCitations, 0 - x.paperCount>>
        byPapers(x) == <<0 - x.paperCount, 0 - x.totalCitations>>
    IN  [op |-> "get_author_ranking",
         ranking |-> IF sort_by = "totalCitations"
                     THEN SortedBy(get_author_ranking(min_year), byCitations)
                     ELSE SortedBy(get_author_ranking(min_year), byPapers)]

\* lines 668-672
get_all_papers ==
    [op |-> "get_all_papers", papers |-> EnrichedPapers, count |-> Len(EnrichedPapers)]

\* A comma-separated argument is the sequence of its fields (what
\* str.split(',') returns, never an empty list); a field is white space
\* around at most one name.  The argument that is absent (None) is <<>>.
Field(name, padded) == [name |-> name, padded |-> padded]

\* x.strip()
Strip(field) == field.name

\* [x.strip() for x in arg.split(',') if x.strip()]
RECURSIVE ParseList(_)
ParseList(arg) ==
    IF arg = <<>>
    THEN <<>>
    ELSE (IF Strip(Head(arg)) # <<>> THEN Strip(Head(arg)) ELSE <<>>)
            \o ParseList(Tail(arg))

\* `if tags:` on an Optional[str]: None and "" are falsy
Given(arg) == arg # <<>> /\ arg # <<Field(<<>>, FALSE)>>

\* tag_list = None; if tags: tag_list = [...]   (None and [] filter alike)
OptionalList(arg) == IF Given(arg) THEN ParseList(arg) ELSE <<>>

\* a variant of the by-tag handler without the test of the parsed list
get_papers_by_tag_unchecked(tags, limit, min_year) ==
    [op |-> "get_papers_by_tag", status |-> 200,
     papers |-> get_papers_by_tags(ParseList(tags), limit, min_year),
     list |-> ParseList(tags)]

\* lines 568-585: 400 when no tag is left after parsing
get_papers_by_tag(tags, limit, min_year) ==
    IF ParseList(tags) = <<>>
    THEN [op |-> "get_papers_by_tag", status |-> 400, papers |-> <<>>, list |-> <<>>]
    ELSE [op |-> "get_papers_by_tag", status |-> 200,
          papers |-> get_papers_by_tags(ParseList(tags), limit, min_year),
          list |-> ParseList(tags)]

\* lines 595-612
get_papers_by_author(authors, limit, min_year) ==
    IF ParseList(authors) = <<>>
    THEN [op |-> "get_papers_by_author", status |-> 400, papers |-> <<>>, list |-> <<>>]
    ELSE [op |-> "get_papers_by_author", status |-> 200,
          papers |-> get_papers_by_authors(ParseList(authors), limit, min_year),
          list |-> ParseList(authors)]

\* lines 641-658
get_papers_by_venue(venues, limit, min_year) ==
    IF ParseList(venues) = <<>>
    THEN [op |-> "get_papers_by_venue", status |-> 400, papers |-> <<>>, list |-> <<>>]
    ELSE [op |-> "get_papers_by_venue", status |-> 200,
          papers |-> get_papers_by_venues(ParseList(venues), limit, min_year),
          list |-> ParseList(venues)]

\* a variant of the get_paper handler that answers an unknown identifier
\* with empty neighbour lists
get_paper_handler_lenient(paper_id, limit, tags, authors, venues, min_year) ==
    [op |-> "get_paper", status |-> 200,
     paper |-> IF paper_id \in DOMAIN papers
               THEN <<_load_tldr_data(papers[paper_id])>> ELSE <<>>,
     cites |-> get_cites(paper_id, limit, OptionalList(tags),
                         OptionalList(authors), OptionalList(venues), min_year),
     cited_by |-> get_cited_by(paper_id, limit, OptionalList(tags),
                               OptionalList(authors), OptionalList(venues), min_year)]

\* lines 532-565 with Corpus.get_paper (218-224): 404 when the identifier is
\* no key of papers
get_paper_handler(paper_id, limit, tags, authors, venues, min_year) ==
    IF paper_id \notin DOMAIN papers
    THEN [op |-> "get_paper", status |-> 404, paper |-> <<>>,
          cites |-> <<>>, cited_by |-> <<>>]
    ELSE [op |-> "get_paper", status |-> 200,
          paper |-> <<_load_tldr_data(papers[paper_id])>>,
          cites |-> get_cites(paper_id, limit, OptionalList(tags),
                              OptionalList(authors), OptionalList(venues), min_year),
          cited_by |-> get_cited_by(paper_id, limit, OptionalList(tags),
                                    OptionalList(authors), OptionalList(venues),
                                    min_year)]

\* lines 496-529: no match for an empty query; the IndexError of
\* best_match_by_title on an empty corpus is not caught (answer 500)
search(query, limit, tags, authors, venues, min_year) ==
    LET best_match == best_match_by_title(query)
    IN  IF best_match.outcome = "none"
        THEN [op |-> "search", status |-> 200, paper |-> <<>>,
              cites |-> <<>>, cited_by |-> <<>>]
        ELSE IF best_match.outcome = "IndexError"
        THEN [op |-> "search", status |-> 500, paper |-> <<>>,
              cites |-> <<>>, cited_by |-> <<>>]
        ELSE LET paperId == best_match.paper[1].paperId
             IN  [op |-> "search", status |-> 200, paper |-> best_match.paper,
                  cites |-> get_cites(paperId, limit, OptionalList(tags),
                                      OptionalList(authors), OptionalList(venues),
                                      min_year),
                  cited_by |-> get_cited_by(paperId, limit, OptionalList(tags),
                                            OptionalList(authors),
                                            OptionalList(venues), min_year)]

\* the comma-separated arguments built from two names: "", " ,", "a",
\* " a ,b" and "b, "
ListArgs(a, b) ==
    { <<Field(<<>>, FALSE)>>,
      <<Field(<<>>, TRUE), Field(<<>>, FALSE)>>,
      <<Field(<<a>>, FALSE)>>,
      <<Field(<<a>>, TRUE), Field(<<b>>, FALSE)>>,
      <<Field(<<b>>, FALSE), Field(<<>>, TRUE)>> }

TagArgs == ListArgs("Learned Index", "Bloom Filter")

AuthorArgs == ListArgs("Kraska", "Ding")

VenueArgs == ListArgs(<<"ICML">>, <<"SIGMOD", "2023">>)

\* min_year: Optional[int]
MinYears == {<<>>, <<2020>>}

\* the optional arguments of a get_paper request
NoFilterArgs == [tags |-> <<>>, authors |-> <<>>, venues |-> <<>>, min_year |-> <<>>]

FilterArgs ==
    {NoFilterArgs, [NoFilterArgs EXCEPT !.min_year = <<2020>>]}
        \cup {[NoFilterArgs EXCEPT !.tags = a] : a \in TagArgs}
        \cup {[NoFilterArgs EXCEPT !.authors = a] : a \in AuthorArgs}
        \cup {[NoFilterArgs EXCEPT !.venues = a] : a \in VenueArgs}
        \cup {[tags |-> <<Field(<<"Learned Index">>, FALSE)>>,
               authors |-> <<Field(<<"Kraska">>, FALSE)>>,
               venues |-> <<Field(<<<<"ICML">>>>, FALSE)>>,
               min_year |-> <<2020>>]}

\* a variant of GetPaper that cuts the stored list of citing papers to the
\* limit (del ids[limit:]) in the place of slicing a copy
GetPaperTruncatingInPlace ==
    /\ phase = "built"
    /\ phase' = "served"
    /\ \E paper_id \in PaperIds, limit \in Limits, f \in FilterArgs :
          /\ args' = [op |-> "get_paper", paper_id |-> paper_id, limit |-> limit,
                      filters |-> f]
          /\ result' = get_paper_handler(paper_id, limit, f.tags, f.authors,
                                         f.venues, f.min_year)
          /\ cited_by' = IF paper_id \in DOMAIN cited_by
                         THEN [cited_by EXCEPT ![paper_id] = Take(@, limit)]
                         ELSE cited_by
    /\ UNCHANGED <<files, papers, papers_keys, cites>>

GetPaper ==
    /\ phase = "built"
    /\ phase' = "served"
    /\ \E paper_id \in PaperIds, limit \in Limits, f \in FilterArgs :
          /\ args' = [op |-> "get_paper", paper_id |-> paper_id, limit |-> limit,
                      filters |-> f]
          /\ result' = get_paper_handler(paper_id, limit, f.tags, f.authors,
                                         f.venues, f.min_year)
    /\ UNCHANGED <<files, graph>>

GetPapersByTag ==
    /\ phase = "built"
    /\ phase' = "served"
    /\ \E tags \in TagArgs, limit \in Limits, min_year \in MinYears :
          /\ args' = [op |-> "get_papers_by_tag", list |-> tags, limit |-> limit,
                      min_year |-> min_year]
          /\ result' = get_papers_by_tag(tags, limit, min_year)
    /\ UNCHANGED <<files, graph>>

GetPapersByAuthor ==
    /\ phase = "built"
    /\ phase' = "served"
    /\ \E authors \in AuthorArgs, limit \in Limits, min_year \in MinYears :
          /\ args' = [op |-> "get_papers_by_author", list |-> authors,
                      limit |-> limit, min_year |-> min_year]
          /\ result' = get_papers_by_author(authors, limit, min_year)
    /\ UNCHANGED <<files, graph>>

GetPapersByVenue ==
    /\ phase = "built"
    /\ phase' = "served"
    /\ \E venues \in VenueArgs, limit \in Limits, min_year \in MinYears :
          /\ args' = [op |-> "get_papers_by_venue", list |-> venues,
                      limit |-> limit, min_year |-> min_year]
          /\ result' = get_papers_by_venue(venues, limit, min_year)
    /\ UNCHANGED <<files, graph>>

(***************************************************************************)
(* The record stores the handlers are checked on: every paper's            *)
(* CitationEdge record lists every other paper, or the seed's record is    *)
(* absent; the first two citing papers have no Paper record or one of the  *)
(* profiles below, every other paper the profile "two".                    *)
(***************************************************************************)
Profiles == {"bare", "one", "two", "other"}

ProfilePaper(p, profile, count) ==
    IF profile = "one"
    THEN Paper(p, <<>>, <<2019>>, <<"ICML", "2023">>, <<"Kraska">>, count)
    ELSE IF profile = "two"
    THEN Paper(p, <<>>, <<2021>>, <<"ICML", "2024">>, <<"Kraska", "Ding">>, count)
    ELSE IF profile = "other"
    THEN Paper(p, <<>>, <<2020>>, <<"SIGMOD", "2023">>, <<"Ding">>, count)
    ELSE BarePaper(p, count)

ProfileTags(profile) ==
    IF profile = "one" THEN TagRecord(<<"Learned Index">>)
    ELSE IF profile = "two" THEN TagRecord(<<"Bloom Filter", "Learned Index">>)
    ELSE IF profile = "other" THEN TagRecord(<<"Bloom Filter">>)
    ELSE NoFile

ProfileContents == {<<"missing", 0>>} \cup (Profiles \X (0..MaxCount))

\* the other papers in ascending order
OtherPapers(p) ==
    LET other(q) == q # p
    IN  SelectSeq([i \in 1..(MaxId + 1) |-> i - 1], other)

InitApi ==
    /\ \E seedListed \in BOOLEAN :
          citationFiles = [p \in PaperIds |->
                              IF p = BASE_PID /\ ~seedListed THEN NoFile
                              ELSE CitationInfo(OtherPapers(p))]
    /\ \E c \in [FirstCiting -> ProfileContents] :
          /\ paperFiles = [p \in PaperIds |->
                              IF p \notin FirstCiting THEN ProfilePaper(p, "two", 0)
                              ELSE IF c[p][1] = "missing" THEN NoFile
                              ELSE ProfilePaper(p, c[p][1], c[p][2])]
          /\ tagFiles = [p \in PaperIds |->
                            IF p \notin FirstCiting THEN ProfileTags("two")
                            ELSE IF c[p][1] = "missing" THEN NoFile
                            ELSE ProfileTags(c[p][1])]
    /\ tldrFiles = NoOverlay
    /\ tldrJaFiles = NoOverlay
    /\ authorInfoFiles = NoAuthorInfo
    /\ phase = "start"
    /\ papers = EmptyMap
    /\ papers_keys = <<>>
    /\ cited_by = EmptyMap
    /\ cites = EmptyMap
    /\ args = NoArgs
    /\ result = NoResult

NextApi ==
    LoadData \/ GetPaper \/ GetPapersByTag \/ GetPapersByAuthor \/ GetPapersByVenue

SpecApi == InitApi /\ [][NextApi]_vars

(***************************************************************************)
(* The service: after the build the handlers answer one request after the  *)
(* other (they are coroutines without an await, so a handler runs to its   *)
(* end before the next one starts).                                        *)
(***************************************************************************)
SearchQueries == {<<>>, <<"a">>, <<"a", "b">>}

Search ==
    /\ phase = "built"
    /\ phase' = "served"
    /\ \E query \in SearchQueries, limit \in Limits, f \in FilterArgs :
          /\ args' = [op |-> "search", query |-> query, limit |-> limit,
                      filters |-> f]
          /\ result' = search(query, limit, f.tags, f.authors, f.venues, f.min_year)
    /\ UNCHANGED <<files, graph>>

GetAllTags ==
    /\ phase = "built"
    /\ phase' = "served"
    /\ args' = [op |-> "get_all_tags"]
    /\ result' = get_all_tags
    /\ UNCHANGED <<files, graph>>

GetAllAuthors ==
    /\ phase = "built"
    /\ phase' = "served"
    /\ args' = [op |-> "get_all_authors"]
    /\ result' = get_all_authors
    /\ UNCHANGED <<files, graph>>

GetAllVenues ==
    /\ phase = "built"
    /\ phase' = "served"
    /\ args' = [op |-> "get_all_venues"]
    /\ result' = get_all_venues
    /\ UNCHANGED <<files, graph>>

GetAuthorRanking ==
    /\ phase = "built"
    /\ phase' = "served"
    /\ \E sort_by \in {"paperCount", "totalCitations"}, min_year \in MinYears :
          /\ args' = [op |-> "get_author_ranking", sort_by |-> sort_by,
                      min_year |-> min_year]
          /\ result' = get_author_ranking_handler(sort_by, min_year)
    /\ UNCHANGED <<files, graph>>

GetAllPapers ==
    /\ phase = "built"
    /\ phase' = "served"
    /\ args' = [op |-> "get_all_papers"]
    /\ result' = get_all_papers
    /\ UNCHANGED <<files, graph>>

\* the answer has been sent: the server takes the next request
NextRequest ==
    /\ phase = "served"
    /\ phase' = "built"
    /\ UNCHANGED <<files, graph, args, result>>

\* the stores of the service: the seed is cited by the first two citing
\* papers, or its CitationEdge record is absent; the first citing paper
\* cites the second one too
ServicePaper(p, profile) ==
    [ProfilePaper(p, profile, p % (MaxCount + 1)) EXCEPT
        !.title = IF profile = "one" THEN <<"a", "b">>
                  ELSE IF profile = "other" THEN <<"b", "a">> ELSE <<"a">>]

ServiceCiting(p) ==
    LET near(q) == q \in FirstCiting \cup {BASE_PID}
    IN  SelectSeq(OtherPapers(p), near)

ServiceProfile(p) ==
    IF p = BASE_PID + 1 THEN "one" ELSE IF p \in FirstCiting THEN "other" ELSE "two"

InitService ==
    /\ \E seedListed \in BOOLEAN :
          citationFiles =
              [p \in PaperIds |->
                  IF p = BASE_PID
                  THEN (IF seedListed
                        THEN CitationInfo(ServiceCiting(BASE_PID)) ELSE NoFile)
                  ELSE IF p = BASE_PID + 1 THEN CitationInfo(ServiceCiting(p))
                  ELSE NoFile]
    /\ paperFiles = [p \in PaperIds |-> ServicePaper(p, ServiceProfile(p))]
    /\ tagFiles = [p \in PaperIds |-> ProfileTags(ServiceProfile(p))]
    /\ tldrFiles = NoOverlay
    /\ tldrJaFiles = NoOverlay
    /\ authorInfoFiles = [a \in AuthorNames |->
                             IF a = "Kraska" THEN AuthorInfo(<<"MIT">>) ELSE NoFile]
    /\ phase = "start"
    /\ papers = EmptyMap
    /\ papers_keys = <<>>
    /\ cited_by = EmptyMap
    /\ cites = EmptyMap
    /\ args = NoArgs
    /\ result = NoResult

NextService ==
    \/ LoadData
    \/ Search
    \/ GetPaper
    \/ GetPapersByTag
    \/ GetPapersByAuthor
    \/ GetPapersByVenue
    \/ GetAllTags
    \/ GetAllAuthors
    \/ GetAllVenues
    \/ GetAuthorRanking
    \/ GetAllPapers
    \/ NextRequest

SpecService == InitService /\ [][NextService]_vars

(***************************************************************************)
(* The enrichment merge on its own: the seed's Paper record may carry a    *)
(* tldr and tags of its own, and each of its three overlay records is      *)
(* absent, unreadable or readable (a readable record without its key gives *)
(* None, or [] for the tags).                                              *)
(***************************************************************************)
TldrRecord(tldr) == [kind |-> "ok", tldr |-> tldr]

TldrJaRecord(tldr_ja) == [kind |-> "ok", tldr_ja |-> tldr_ja]

OnlySeed(rec) == [p \in PaperIds |-> IF p = BASE_PID THEN rec ELSE NoFile]

InitMerge ==
    /\ citationFiles = NoOverlay
    /\ \E tldr \in {<<>>, <<"base summary">>}, tags \in {<<>>, <<"Learned Index">>} :
          paperFiles = [p \in PaperIds |->
                           IF p = BASE_PID
                           THEN [ProfilePaper(p, "one", 0) EXCEPT
                                    !.tldr = tldr, !.tags = tags]
                           ELSE PlainPaper(p)]
    /\ \E rec \in {NoFile, BadFile, TldrRecord(<<>>), TldrRecord(<<"summary">>)} :
          tldrFiles = OnlySeed(rec)
    /\ \E rec \in {NoFile, BadFile, TldrJaRecord(<<>>), TldrJaRecord(<<"youyaku">>)} :
          tldrJaFiles = OnlySeed(rec)
    /\ authorInfoFiles = NoAuthorInfo
    /\ \E rec \in {NoFile, BadFile, TagRecord(<<>>), TagRecord(<<"Bloom Filter">>),
                   TagRecord(<<"Bloom Filter", "Learned Index">>)} :
          tagFiles = OnlySeed(rec)
    /\ phase = "start"
    /\ papers = EmptyMap
    /\ papers_keys = <<>>
    /\ cited_by = EmptyMap
    /\ cites = EmptyMap
    /\ args = NoArgs
    /\ result = NoResult

\* paper = self._load_tldr_data(paper) on a stored paper (line 223)
Merge ==
    /\ phase = "built"
    /\ phase' = "merged"
    /\ \E paper_id \in DOMAIN papers :
          /\ args' = [op |-> "_load_tldr_data", paper_id |-> paper_id]
          /\ result' = [op |-> "_load_tldr_data",
                        paper |-> _load_tldr_data(papers[paper_id])]
    /\ UNCHANGED <<files, graph>>

\* _load_tldr_data applied to the Paper it returned
MergeAgain ==
    /\ phase = "merged"
    /\ phase' = "merged again"
    /\ result' = [op |-> "_load_tldr_data", paper |-> _load_tldr_data(result.paper)]
    /\ UNCHANGED <<files, graph, args>>

NextMerge == LoadData \/ Merge \/ MergeAgain

SpecMerge == InitMerge /\ [][NextMerge]_vars

(***************************************************************************)
(* The aggregates and the author ranking on stores in which every paper is *)
(* loaded: besides the profiles above, a paper whose two authors have the  *)
(* same display name, whose year is absent and whose venue normalises to   *)
(* the empty string.                                                       *)
(***************************************************************************)
RankingPaper(p, profile, count) ==
    IF profile = "same"
    THEN Paper(p, <<>>, <<>>, <<"(2023)">>, <<"Kraska", "Kraska">>, count)
    ELSE ProfilePaper(p, profile, count)

RankingTags(profile) ==
    IF profile = "same" THEN TagRecord(<<"Learned Index">>) ELSE ProfileTags(profile)

RankingContents == {<<"missing", 0>>} \cup ((Profiles \cup {"same"}) \X (0..MaxCount))

InitRanking ==
    /\ citationFiles = [p \in PaperIds |-> CitationInfo(OtherPapers(p))]
    /\ \E c \in [FirstCiting -> RankingContents] :
          /\ paperFiles = [p \in PaperIds |->
                              IF p \notin FirstCiting THEN RankingPaper(p, "two", 0)
                              ELSE IF c[p][1] = "missing" THEN NoFile
                              ELSE RankingPaper(p, c[p][1], c[p][2])]
          /\ tagFiles = [p \in PaperIds |->
                            IF p \notin FirstCiting THEN RankingTags("two")
                            ELSE IF c[p][1] = "missing" THEN NoFile
                            ELSE RankingTags(c[p][1])]
    /\ tldrFiles = NoOverlay
    /\ tldrJaFiles = NoOverlay
    /\ authorInfoFiles = [a \in AuthorNames |->
                             IF a = "Kraska" THEN AuthorInfo(<<"MIT">>) ELSE NoFile]
    /\ phase = "start"
    /\ papers = EmptyMap
    /\ papers_keys = <<>>
    /\ cited_by = EmptyMap
    /\ cites = EmptyMap
    /\ args = NoArgs
    /\ result = NoResult

NextRanking ==
    \/ LoadData
    \/ GetAllTags
    \/ GetAllAuthors
    \/ GetAllVenues
    \/ GetAuthorRanking

SpecRanking == InitRanking /\ [][NextRanking]_vars

(***************************************************************************)
(* normalize_venue on its own: a venue string of up to MaxTokens tokens is  *)
(* normalised, and the result is normalised again.                         *)
(***************************************************************************)
InitVenue ==
    /\ citationFiles = NoOverlay
    /\ paperFiles = NoOverlay
    /\ tagFiles = NoOverlay
    /\ tldrFiles = NoOverlay
    /\ tldrJaFiles = NoOverlay
    /\ authorInfoFiles = NoAuthorInfo
    /\ phase = "venue"
    /\ papers = EmptyMap
    /\ papers_keys = <<>>
    /\ cited_by = EmptyMap
    /\ cites = EmptyMap
    /\ \E venue \in SeqsUpTo(VenueTokens, MaxTokens) :
          args = [op |-> "normalize_venue", venue |-> venue]
    /\ result = NoResult

Normalize ==
    /\ phase = "venue"
    /\ phase' = "normalized"
    /\ result' = [op |-> "normalize_venue", venue |-> normalize_venue(args.venue)]
    /\ UNCHANGED <<files, graph, args>>

NormalizeAgain ==
    /\ phase = "normalized"
    /\ phase' = "normalized again"
    /\ result' = [op |-> "normalize_venue", venue |-> normalize_venue(result.venue),
                  once |-> result.venue]
    /\ UNCHANGED <<files, graph, args>>

NextVenue ==
    \/ Normalize
    \/ NormalizeAgain

SpecVenue == InitVenue /\ [][NextVenue]_vars

(***************************************************************************)
(* get_tag.py: the tag vocabulary, the hierarchy and apply_hierarchy.  Of  *)
(* ALL_TAGS the model keeps the tags of HIERARCHY and one tag outside it.  *)
(***************************************************************************)
ALL_TAGS ==
    <<"Learned Index", "Learned Bloom Filter", "Bloom Filter", "Sketch",
      "Multidimensional", "Time-series", "Space-Filling Curve", "Filter", "GPU",
      "Database", "Query optimization", "Cardinality estimation">>

\* child tag -> list of parent tags
HIERARCHY ==
    [tag \in {"Learned Bloom Filter", "Bloom Filter", "Sketch", "Query optimization",
              "Cardinality estimation", "Space-Filling Curve", "Time-series"} |->
        CASE tag = "Learned Bloom Filter" -> <<"Learned Index", "Bloom Filter">>
          [] tag = "Bloom Filter" -> <<"Filter">>
          [] tag = "Sketch" -> <<"Filter">>
          [] tag = "Query optimization" -> <<"Database">>
          [] tag = "Cardinality estimation" -> <<"Database">>
          [] tag = "Space-Filling Curve" -> <<"Multidimensional">>
          [] tag = "Time-series" -> <<"Multidimensional">>]

\* a variant of HierarchyPass that adds the first parent of a tag only
HierarchyPassFirstParent(result_tags) ==
    result_tags \cup
        {HIERARCHY[tag][1] : tag \in result_tags \cap DOMAIN HIERARCHY}

\* one pass of the while loop over result_tags: the parents of every tag
\* that is a key of HIERARCHY are added to a copy
HierarchyPass(result_tags) ==
    result_tags \cup
        UNION {Range(HIERARCHY[tag]) : tag \in result_tags \cap DOMAIN HIERARCHY}

\* the loop as a function: passes until nothing changes
RECURSIVE HierarchyLoop(_)
HierarchyLoop(result_tags) ==
    IF HierarchyPass(result_tags) = result_tags
    THEN result_tags
    ELSE HierarchyLoop(HierarchyPass(result_tags))

\* lines 207-226; result_tags = set(tags)
apply_hierarchy(tags) == HierarchyLoop(Range(tags))

\* the tags apply_hierarchy is called with: those of the vocabulary and a
\* string outside it
TagPool == Range(ALL_TAGS) \cup {"Unknown"}

InitTags ==
    /\ citationFiles = NoOverlay
    /\ paperFiles = NoOverlay
    /\ tagFiles = NoOverlay
    /\ tldrFiles = NoOverlay
    /\ tldrJaFiles = NoOverlay
    /\ authorInfoFiles = NoAuthorInfo
    /\ phase = "tags"
    /\ papers = EmptyMap
    /\ papers_keys = <<>>
    /\ cited_by = EmptyMap
    /\ cites = EmptyMap
    /\ \E tags \in SeqsUpTo(TagPool, MaxTags) :
          args = [op |-> "apply_hierarchy", tags |-> tags]
    /\ result = NoResult

\* lines 209-212: result_tags = set(tags); changed = True
ApplyHierarchy ==
    /\ phase = "tags"
    /\ phase' = "closing"
    /\ result' = [op |-> "apply_hierarchy", result_tags |-> Range(args.tags),
                  changed |-> TRUE, passes |-> 0, first |-> {}]
    /\ UNCHANGED <<files, graph, args>>

\* lines 213-224: one pass of the loop body
HierarchyStep ==
    /\ phase \in {"closing", "closing again"}
    /\ result.changed
    /\ result' = [result EXCEPT
                     !.result_tags = HierarchyPass(result.result_tags),
                     !.changed = HierarchyPass(result.result_tags) # result.result_tags,
                     !.passes = @ + 1]
    /\ UNCHANGED <<files, graph, args, phase>>

\* line 226: the loop has ended
ReturnTags ==
    /\ phase \in {"closing", "closing again"}
    /\ ~result.changed
    /\ phase' = IF phase = "closing" THEN "closed" ELSE "closed again"
    /\ UNCHANGED <<files, graph, args, result>>

\* apply_hierarchy is called with (a list of) what it returned
ApplyHierarchyAgain ==
    /\ phase = "closed"
    /\ phase' = "closing again"
    /\ result' = [result EXCEPT !.changed = TRUE, !.passes = 0,
                                !.first = result.result_tags]
    /\ UNCHANGED <<files, graph, args>>

NextTags ==
    \/ ApplyHierarchy
    \/ HierarchyStep
    \/ ReturnTags
    \/ ApplyHierarchyAgain

SpecTags == InitTags /\ [][NextTags]_vars

\* the call runs on: no step of it waits for anything
SpecTagsRunning == SpecTags /\ WF_vars(NextTags)

(***************************************************************************)
(* get_tag.py: the tag collector.  A Paper record is here its title and    *)
(* its abstract (each absent or present); a TagSet record is its tag list. *)
(***************************************************************************)
PaperText(title, abstract) == [kind |-> "ok", title |-> title, abstract |-> abstract]

\* load_paper_abstract, lines 94-110: none for no record, an unreadable
\* record or a record without abstract
load_paper_abstract(paper_id) ==
    IF paperFiles[paper_id].kind = "ok" THEN paperFiles[paper_id].abstract ELSE <<>>

\* load_paper_title, lines 113-124
load_paper_title(paper_id) ==
    IF paperFiles[paper_id].kind = "ok" THEN paperFiles[paper_id].title ELSE <<>>

\* what the language model may answer: nothing usable (the call or the
\* parse fails, or the JSON is no list), or a list of strings
NoAnswer == [kind |-> "none"]

Answers ==
    {NoAnswer} \cup
        {[kind |-> "list", tags |-> tags] :
            tags \in SeqsUpTo({"Learned Bloom Filter", "Bloom Filter", "Sketch", "GPU",
                               "Unknown"}, MaxAnswer)}

\* generate_tags, lines 127-204, on the answer of the model: the tags of
\* the answer that are in ALL_TAGS, in the order of the answer
generate_tags(answer) ==
    LET valid(tag) == InSeq(tag, ALL_TAGS)
    IN  IF answer.kind = "list"
        THEN [kind |-> "list", tags |-> SelectSeq(answer.tags, valid)]
        ELSE NoAnswer

\* list(final_tags): the elements of the set in some order, here that of
\* ALL_TAGS (which is not the sorted one)
ListOfTags(S) ==
    LET member(tag) == tag \in S
    IN  SelectSeq(ALL_TAGS, member)

\* a variant of sorted_tags that leaves the list as it is
unsorted_tags(tags) == tags

\* sorted(tags) on tag names
sorted_tags(tags) ==
    LET rank(tag) == <<TagRank(tag)>>
    IN  SortedBy(tags, rank)

\* get_target_paper_ids, lines 77-91, as a set
get_target_paper_ids ==
    IF citationFiles[BASE_PID].kind = "ok"
    THEN {BASE_PID} \cup Range(citationFiles[BASE_PID].citationPaperIds)
    ELSE {BASE_PID}

\* main, lines 258-272: the papers whose TagSet record is missing or
\* unreadable
PapersToProcess ==
    {pid \in get_target_paper_ids : tagFiles[pid].kind # "ok"}

InitCollector ==
    /\ \E seedRec \in {NoFile, BadFile, CitationInfo(<<BASE_PID + 1>>)} :
          citationFiles = [p \in PaperIds |-> IF p = BASE_PID THEN seedRec ELSE NoFile]
    /\ paperFiles \in
          [PaperIds -> {NoFile, PaperText(<<>>, <<>>), PaperText(<<"t">>, <<>>),
                        PaperText(<<"t">>, <<"a">>)}]
    /\ \A p \in PaperIds : p > BASE_PID + 1 => paperFiles[p] = NoFile
    /\ tagFiles \in [PaperIds -> {NoFile, BadFile, TagRecord(<<"GPU">>)}]
    /\ \A p \in PaperIds : p > BASE_PID + 1 => tagFiles[p] = NoFile
    /\ tldrFiles = NoOverlay
    /\ tldrJaFiles = NoOverlay
    /\ authorInfoFiles = NoAuthorInfo
    /\ phase = "collector"
    /\ papers = EmptyMap
    /\ papers_keys = <<>>
    /\ cited_by = EmptyMap
    /\ cites = EmptyMap
    /\ args = NoArgs
    /\ result = NoResult

\* main, lines 252-277: the papers to process, in the order of list(set);
\* json.load of an unreadable seed record is not caught
StartCollector ==
    /\ phase = "collector"
    /\ IF citationFiles[BASE_PID].kind = "malformed"
       THEN /\ phase' = "failed"
            /\ args' = [op |-> "main", todo |-> <<>>]
       ELSE /\ phase' = "collecting"
            /\ \E order \in Orders(PapersToProcess) :
                  args' = [op |-> "main", todo |-> order]
    /\ result' = [op |-> "main", success_count |-> 0, fail_count |-> 0]
    /\ UNCHANGED <<files, graph>>

\* main, lines 283-306: one paper of the loop
TagPaper ==
    /\ phase = "collecting"
    /\ args.todo # <<>>
    /\ LET paper_id == Head(args.todo)
           abstract == load_paper_abstract(paper_id)
           title == load_paper_title(paper_id)
       IN  IF abstract = <<>> /\ title = <<>>
           THEN /\ result' = [result EXCEPT !.fail_count = @ + 1]
                /\ UNCHANGED tagFiles
           ELSE \E answer \in Answers :
                  LET tags == generate_tags(answer)
                  IN  IF tags.kind = "none" \/ tags.tags = <<>>
                      THEN /\ result' = [result EXCEPT !.fail_count = @ + 1]
                           /\ UNCHANGED tagFiles
                      ELSE /\ result' = [result EXCEPT !.success_count = @ + 1]
                           /\ tagFiles' =
                                 [tagFiles EXCEPT ![paper_id] =
                                     TagRecord(sorted_tags(sorted_tags(
                                         ListOfTags(apply_hierarchy(tags.tags)))))]
    /\ args' = [args EXCEPT !.todo = Tail(@)]
    /\ UNCHANGED <<citationFiles, paperFiles, tldrFiles, tldrJaFiles,
                   authorInfoFiles, graph, phase>>

\* main, line 308
EndCollector ==
    /\ phase = "collecting"
    /\ args.todo = <<>>
    /\ phase' = "collected"
    /\ UNCHANGED <<files, graph, args, result>>

NextCollector ==
    \/ StartCollector
    \/ TagPaper
    \/ EndCollector

SpecCollector == InitCollector /\ [][NextCollector]_vars

(***************************************************************************)
(* collect_papers.py: the two save functions, called in any order with any *)
(* values on the records of the seed and of its first citing paper.        *)
(***************************************************************************)
SavedPids == {BASE_PID, BASE_PID + 1}

\* the metadata a save of paper pid is called with
Metadata(pid) == {PlainPaper(pid), TitledPaper(pid, <<"a">>)}

CitingLists == SeqsUpTo(FirstCiting, MaxRefs)

\* filepath.exists()
FileExists(folder, pid) == folder[pid].kind # "missing"

\* a variant of SavePaperMetadata without the test for an existing file
SavePaperMetadataOverwriting ==
    /\ phase \in {"saving", "saved"}
    /\ phase' = "saved"
    /\ \E pid \in SavedPids : \E metadata \in Metadata(pid) :
          /\ args' = [op |-> "save_paper_metadata", pid |-> pid, value |-> metadata]
          /\ paperFiles' = [paperFiles EXCEPT ![pid] = metadata]
    /\ UNCHANGED <<citationFiles, tagFiles, tldrFiles, tldrJaFiles, authorInfoFiles,
                   graph, result>>

\* save_paper_metadata, lines 19-24
SavePaperMetadata ==
    /\ phase \in {"saving", "saved"}
    /\ phase' = "saved"
    /\ \E pid \in SavedPids : \E metadata \in Metadata(pid) :
          /\ args' = [op |-> "save_paper_metadata", pid |-> pid, value |-> metadata]
          /\ paperFiles' = IF FileExists(paperFiles, pid)
                           THEN paperFiles
                           ELSE [paperFiles EXCEPT ![pid] = metadata]
    /\ UNCHANGED <<citationFiles, tagFiles, tldrFiles, tldrJaFiles, authorInfoFiles,
                   graph, result>>

\* save_citing_paper_ids, lines 27-36
SaveCitingPaperIds ==
    /\ phase \in {"saving", "saved"}
    /\ phase' = "saved"
    /\ \E pid \in SavedPids, citing_ids \in CitingLists :
          /\ args' = [op |-> "save_citing_paper_ids", pid |-> pid,
                      value |-> CitationInfo(citing_ids)]
          /\ citationFiles' = IF FileExists(citationFiles, pid)
                              THEN citationFiles
                              ELSE [citationFiles EXCEPT ![pid] = CitationInfo(citing_ids)]
    /\ UNCHANGED <<paperFiles, tagFiles, tldrFiles, tldrJaFiles, authorInfoFiles,
                   graph, result>>

\* before the first save a record is absent, or a file that was left
\* unreadable is in its place
InitSave ==
    /\ citationFiles \in [PaperIds -> {NoFile, BadFile}]
    /\ paperFiles \in [PaperIds -> {NoFile, BadFile}]
    /\ \A p \in PaperIds \ SavedPids :
          citationFiles[p] = NoFile /\ paperFiles[p] = NoFile
    /\ tagFiles = NoOverlay
    /\ tldrFiles = NoOverlay
    /\ tldrJaFiles = NoOverlay
    /\ authorInfoFiles = NoAuthorInfo
    /\ phase = "saving"
    /\ papers = EmptyMap
    /\ papers_keys = <<>>
    /\ cited_by = EmptyMap
    /\ cites = EmptyMap
    /\ args = NoArgs
    /\ result = NoResult

NextSave ==
    \/ SavePaperMetadata
    \/ SaveCitingPaperIds

SpecSave == InitSave /\ [][NextSave]_vars

(***************************************************************************)
(* collect_papers.py: list_citing_paper_ids_if_not_exists and              *)
(* collect_citing_paper_metadata_list, each called up to twice (a first   *)
(* run and a resumed run).  A returned value is a list of identifiers or   *)
(* the dict that json.load gives for a stored CitationEdge record.         *)
(***************************************************************************)
ListValue(ids) == [type |-> "list", ids |-> ids, record |-> NoFile]

DictValue(record) == [type |-> "dict", ids |-> <<>>, record |-> record]

\* json.load raised
ErrorValue == [type |-> "error", ids |-> <<>>, record |-> NoFile]

NoValue == [type |-> "none", ids |-> <<>>, record |-> NoFile]

\* what a for loop over a returned value visits: the elements of a list,
\* the keys of a dict in the order save_citing_paper_ids wrote them
IdItem(p) == [kind |-> "id", id |-> p, key |-> ""]

KeyItem(k) == [kind |-> "key", id |-> BASE_PID, key |-> k]

ItemsOf(value) ==
    IF value.type = "list" THEN [i \in 1..Len(value.ids) |-> IdItem(value.ids[i])]
    ELSE IF value.type = "dict"
    THEN <<KeyItem("paperId"), KeyItem("citationPaperIds")>>
    ELSE <<>>

\* list_citing_paper_ids_if_not_exists, lines 49-56, when the server lists
\* citing_ids for pid: the value returned and the records afterwards
list_citing_paper_ids_if_not_exists(pid, citing_ids) ==
    IF FileExists(citationFiles, pid)
    THEN [value |-> IF citationFiles[pid].kind = "ok"
                    THEN DictValue(citationFiles[pid]) ELSE ErrorValue,
          citations |-> citationFiles]
    ELSE [value |-> ListValue(citing_ids),
          citations |-> [citationFiles EXCEPT ![pid] = CitationInfo(citing_ids)]]

\* the loop of lines 65-66 over get_paper_metadata_if_not_exists (lines
\* 39-46): a stored record is read (an unreadable one raises), a missing
\* one is fetched and saved; the server knows no paper named by a key of
\* the dict, and the request for it raises
RECURSIVE CollectLoop(_, _, _)
CollectLoop(items, pf, visited) ==
    IF items = <<>>
    THEN [papers |-> pf, iterated |-> visited, outcome |-> "ok"]
    ELSE LET item == Head(items)
         IN  IF item.kind = "key"
             THEN [papers |-> pf, iterated |-> Append(visited, item),
                   outcome |-> "error"]
             ELSE IF pf[item.id].kind = "malformed"
             THEN [papers |-> pf, iterated |-> Append(visited, item),
                   outcome |-> "error"]
             ELSE CollectLoop(Tail(items),
                              IF pf[item.id].kind = "missing"
                              THEN [pf EXCEPT ![item.id] = TitledPaper(item.id, <<"a">>)]
                              ELSE pf,
                              Append(visited, item))

NoCall == [pid |-> BASE_PID, value |-> NoValue, iterated |-> <<>>]

ListCitingPaperIdsIfNotExists ==
    /\ phase \in {"collect", "listed"}
    /\ phase' = IF phase = "collect" THEN "listed" ELSE "listed again"
    /\ \E pid \in SavedPids, citing_ids \in CitingLists :
          LET r == list_citing_paper_ids_if_not_exists(pid, citing_ids)
          IN  /\ args' = [op |-> "list_citing_paper_ids_if_not_exists", pid |-> pid]
              /\ result' = [op |-> "list_citing_paper_ids_if_not_exists",
                            pid |-> pid, value |-> r.value, iterated |-> <<>>,
                            outcome |-> IF r.value.type = "error" THEN "error" ELSE "ok",
                            first |-> IF phase = "collect" THEN NoCall
                                      ELSE [pid |-> result.pid, value |-> result.value,
                                            iterated |-> result.iterated]]
              /\ citationFiles' = r.citations
    /\ UNCHANGED <<paperFiles, tagFiles, tldrFiles, tldrJaFiles, authorInfoFiles, graph>>

\* collect_citing_paper_metadata_list, lines 59-67
CollectCitingPaperMetadataList ==
    /\ phase \in {"collect", "collected"}
    /\ phase' = IF phase = "collect" THEN "collected" ELSE "collected again"
    /\ \E pid \in SavedPids, citing_ids \in CitingLists :
          LET r == list_citing_paper_ids_if_not_exists(pid, citing_ids)
              loop == CollectLoop(ItemsOf(r.value), paperFiles, <<>>)
          IN  /\ args' = [op |-> "collect_citing_paper_metadata_list", pid |-> pid]
              /\ result' = [op |-> "collect_citing_paper_metadata_list",
                            pid |-> pid, value |-> r.value,
                            iterated |-> loop.iterated,
                            outcome |-> IF r.value.type = "error" THEN "error"
                                        ELSE loop.outcome,
                            first |-> IF phase = "collect" THEN NoCall
                                      ELSE [pid |-> result.pid, value |-> result.value,
                                            iterated |-> result.iterated]]
              /\ citationFiles' = r.citations
              /\ paperFiles' = loop.papers
    /\ UNCHANGED <<tagFiles, tldrFiles, tldrJaFiles, authorInfoFiles, graph>>

\* before the first run the CitationEdge records are absent; a Paper record
\* may be stored already, or be unreadable
InitCollect ==
    /\ citationFiles = NoOverlay
    /\ paperFiles \in [PaperIds -> {NoFile, BadFile, PlainPaper(BASE_PID)}]
    /\ \A p \in PaperIds :
          /\ p \notin FirstCiting => paperFiles[p] = NoFile
          /\ paperFiles[p].kind = "ok" => paperFiles[p] = PlainPaper(p)
    /\ tagFiles = NoOverlay
    /\ tldrFiles = NoOverlay
    /\ tldrJaFiles = NoOverlay
    /\ authorInfoFiles = NoAuthorInfo
    /\ phase = "collect"
    /\ papers = EmptyMap
    /\ papers_keys = <<>>
    /\ cited_by = EmptyMap
    /\ cites = EmptyMap
    /\ args = NoArgs
    /\ result = NoResult

NextCollect ==
    \/ ListCitingPaperIdsIfNotExists
    \/ CollectCitingPaperMetadataList

SpecCollect == InitCollect /\ [][NextCollect]_vars

(***************************************************************************)
(* semantic_scholar_utils.py and openalex_utils.py: _request_json, one     *)
(* step per pass of its loop.  A response is a status with a body that     *)
(* parses as JSON or does not; status 0 stands for a network exception.    *)
(* resp.json() on a body that does not parse raises an exception of the    *)
(* requests library: a RequestException in the releases that define        *)
(* requests.JSONDecodeError, a plain ValueError in the earlier ones.       *)
(***************************************************************************)
_MAX_RETRIES == 6

Statuses == {200, 429, 500, 502, 503, 504, 400, 404}

EveryErrorStatus == Statuses \ {200}

RETRY_STATUSES == {429, 500, 502, 503, 504}

NETWORK_ERROR == 0

Clients == {"semantic_scholar", "openalex"}

JsonErrors == {"RequestException", "ValueError"}

Bodies == {"a", "b"}

Response(status, parses, body) == [status |-> status, parses |-> parses, body |-> body]

NoResponse == Response(NETWORK_ERROR, FALSE, "")

Responses ==
    {Response(200, TRUE, b) : b \in Bodies}
      \cup {Response(200, FALSE, "<html>")}
      \cup {Response(s, FALSE, "") : s \in (Statuses \ {200}) \cup {NETWORK_ERROR}}

\* the response is a 200 whose body resp.json() can return
IsOk(resp) == resp.status = 200 /\ resp.parses

\* the pass ends in time.sleep and the loop goes on
IsRetried(resp, json_error) ==
    \/ resp.status \in RETRY_STATUSES
    \/ resp.status = NETWORK_ERROR
    \/ resp.status = 200 /\ ~resp.parses /\ json_error = "RequestException"

Pending(client, json_error, attempts, last) ==
    [op |-> "_request_json", client |-> client, json_error |-> json_error,
     attempts |-> attempts, last |-> last, outcome |-> "pending",
     value |-> "", error |-> "none"]

RequestJson ==
    /\ phase = "client"
    /\ phase' = "requesting"
    /\ \E client \in Clients, json_error \in JsonErrors :
          /\ args' = [op |-> "_request_json", client |-> client]
          /\ result' = Pending(client, json_error, 0, NoResponse)
    /\ UNCHANGED <<files, graph>>

\* one pass of the loop, lines 35-53
Attempt ==
    /\ phase = "requesting"
    /\ result.attempts < _MAX_RETRIES
    /\ \E resp \in Responses :
          LET made == [result EXCEPT !.attempts = @ + 1, !.last = resp]
          IN  IF IsOk(resp)
              THEN /\ result' = [made EXCEPT !.outcome = "returned", !.value = resp.body]
                   /\ phase' = "returned"
              ELSE IF IsRetried(resp, result.json_error)
              THEN /\ result' = made
                   /\ phase' = "requesting"
              ELSE IF resp.status = 200
              THEN /\ result' = [made EXCEPT !.outcome = "raised", !.error = "json"]
                   /\ phase' = "raised"
              ELSE IF result.client = "openalex"
              THEN /\ result' = [made EXCEPT !.outcome = "returned", !.value = "{}"]
                   /\ phase' = "returned"
              ELSE /\ result' = [made EXCEPT !.outcome = "raised", !.error = "status"]
                   /\ phase' = "raised"
    /\ UNCHANGED <<files, graph, args>>

\* the loop ran out, line 55
Exhausted ==
    /\ phase = "requesting"
    /\ result.attempts >= _MAX_RETRIES
    /\ result' = [result EXCEPT !.outcome = "raised", !.error = "retries"]
    /\ phase' = "raised"
    /\ UNCHANGED <<files, graph, args>>

InitRetry ==
    /\ citationFiles = NoOverlay
    /\ paperFiles = NoOverlay
    /\ tagFiles = NoOverlay
    /\ tldrFiles = NoOverlay
    /\ tldrJaFiles = NoOverlay
    /\ authorInfoFiles = NoAuthorInfo
    /\ phase = "client"
    /\ papers = EmptyMap
    /\ papers_keys = <<>>
    /\ cited_by = EmptyMap
    /\ cites = EmptyMap
    /\ args = NoArgs
    /\ result = NoResult

NextRetry ==
    \/ RequestJson
    \/ Attempt
    \/ Exhausted

SpecRetry == InitRetry /\ [][NextRetry]_vars

\* every request has a timeout and every sleep is finite: a pass of the
\* loop that can be made is made
SpecRetryRunning == SpecRetry /\ WF_vars(NextRetry)

(***************************************************************************)
(* filter_data.py.  A folder is a mapping from identifiers to records; a   *)
(* record that is not NoFile is a file of the folder.                      *)
(***************************************************************************)
\* get_papers_to_keep, lines 18-37, without the seed itself
citing_papers_only(cf) ==
    IF cf[BASE_PID].kind = "ok" THEN Range(cf[BASE_PID].citationPaperIds) ELSE {}

\* get_papers_to_keep, lines 18-37, when it returns
get_papers_to_keep(cf) ==
    {BASE_PID} \cup
      (IF cf[BASE_PID].kind = "ok" THEN Range(cf[BASE_PID].citationPaperIds) ELSE {})

\* get_papers_to_keep raises: json.load on an unreadable record, set.update
\* on an element that is not hashable
KeepRaises(cf) ==
    \/ cf[BASE_PID].kind = "malformed"
    \/ cf[BASE_PID].kind = "ok" /\ InSeq(BadItem, cf[BASE_PID].citationPaperIds)

\* delete_files_not_in_set, lines 40-65: the folder afterwards
delete_files_not_in_set(folder, files_to_keep) ==
    [p \in DOMAIN folder |-> IF p \in files_to_keep THEN folder[p] ELSE NoFile]

\* deleted_count of lines 58-60, as the set of the files unlinked
Deleted(folder, files_to_keep) ==
    {p \in DOMAIN folder : folder[p].kind # "missing" /\ p \notin files_to_keep}

\* main, lines 68-91
FilterData ==
    /\ phase = "filter"
    /\ args' = [op |-> "filter_data"]
    /\ IF KeepRaises(citationFiles)
       THEN /\ phase' = "failed"
            /\ result' = [op |-> "filter_data", papers_to_keep |-> {},
                          deleted |-> {}]
            /\ UNCHANGED files
       ELSE LET papers_to_keep == get_papers_to_keep(citationFiles)
            IN  IF papers_to_keep = {}
                THEN /\ phase' = "aborted"
                     /\ result' = [op |-> "filter_data", papers_to_keep |-> {},
                                   deleted |-> {}]
                     /\ UNCHANGED files
                ELSE /\ phase' = "filtered"
                     /\ paperFiles' = delete_files_not_in_set(paperFiles, papers_to_keep)
                     /\ citationFiles' = delete_files_not_in_set(citationFiles, papers_to_keep)
                     /\ tldrFiles' = delete_files_not_in_set(tldrFiles, papers_to_keep)
                     /\ tldrJaFiles' = delete_files_not_in_set(tldrJaFiles, papers_to_keep)
                     /\ tagFiles' = delete_files_not_in_set(tagFiles, papers_to_keep)
                     /\ result' = [op |-> "filter_data",
                                   papers_to_keep |-> papers_to_keep,
                                   deleted |->
                                     ({"papers"} \X Deleted(paperFiles, papers_to_keep))
                                     \cup ({"citations"} \X Deleted(citationFiles, papers_to_keep))
                                     \cup ({"tldr"} \X Deleted(tldrFiles, papers_to_keep))
                                     \cup ({"tldr_ja"} \X Deleted(tldrJaFiles, papers_to_keep))
                                     \cup ({"tags"} \X Deleted(tagFiles, papers_to_keep))]
                     /\ UNCHANGED authorInfoFiles
    /\ UNCHANGED graph

\* a folder that holds a record for every identifier of S
FolderOf(S, record) == [p \in PaperIds |-> IF p \in S THEN record ELSE NoFile]

\* the stores before a run: any CitationEdge record of the seed, Paper
\* records for any set of identifiers, and overlay folders that are empty
\* or full
InitFilter ==
    /\ \E seedRec \in {NoFile, BadFile}
                        \cup {CitationInfo(ids) :
                                ids \in SeqsUpTo(NearIds \cup {BadItem}, MaxRefs)},
          S \in SUBSET FirstCiting :
          citationFiles = [p \in PaperIds |->
                              IF p = BASE_PID THEN seedRec
                              ELSE IF p \in S THEN CitationInfo(<<>>) ELSE NoFile]
    /\ \E S \in SUBSET PaperIds :
          paperFiles = [p \in PaperIds |-> IF p \in S THEN PlainPaper(p) ELSE NoFile]
    /\ tagFiles \in {NoOverlay, FolderOf(PaperIds, TagRecord(<<"GPU">>))}
    /\ tldrFiles \in {NoOverlay, FolderOf(PaperIds, TldrRecord(<<"t">>))}
    /\ tldrJaFiles \in {NoOverlay, FolderOf(PaperIds, BadFile)}
    /\ authorInfoFiles \in {NoAuthorInfo, [a \in AuthorNames |-> BadFile]}
    /\ phase = "filter"
    /\ papers = EmptyMap
    /\ papers_keys = <<>>
    /\ cited_by = EmptyMap
    /\ cites = EmptyMap
    /\ args = NoArgs
    /\ result = NoResult

NextFilter == FilterData

SpecFilter == InitFilter /\ [][NextFilter]_vars

(***************************************************************************)
(* semantic_scholar_utils.py: list_citing_paper_ids, one step per pass of  *)
(* its while loop.  A page is the `data` list of a response, each item     *)
(* given by its citingPaper.paperId ("" when the item has none), and the   *)
(* `next` offset; NoNext stands for a response without `next`, NoLimit for *)
(* max_results = None.                                                     *)
(***************************************************************************)
NoNext == 0 - 1

NoLimit == 0 - 1

MaxResults == {NoLimit, 0, 1, 2}

PerPage == {0, 100, 5000}

PageData == {<<>>, <<"a">>, <<"", "b">>, <<"b", "c">>}

NextOffsets == {NoNext, 1, 5}

Page(data, next) == [data |-> data, next |-> next]

Pages == {Page(data, next) : data \in PageData, next \in NextOffsets}

\* the loop of lines 120-126: the list afterwards, and whether the loop
\* left the function by its return
RECURSIVE TakeIds(_, _, _)
TakeIds(out, items, max_results) ==
    IF items = <<>>
    THEN [out |-> out, returned |-> FALSE]
    ELSE IF Head(items) # ""
    THEN LET appended == Append(out, Head(items))
         IN  IF max_results # NoLimit /\ Len(appended) >= max_results
             THEN [out |-> appended, returned |-> TRUE]
             ELSE TakeIds(appended, Tail(items), max_results)
    ELSE TakeIds(out, Tail(items), max_results)

\* lines 111-116
ListCitingPaperIds ==
    /\ phase = "s2"
    /\ phase' = "paging"
    /\ \E per_page \in PerPage, max_results \in MaxResults :
          args' = [op |-> "list_citing_paper_ids",
                   per_page |-> Max(1, Min(1000, per_page)),
                   max_results |-> max_results]
    /\ result' = [op |-> "list_citing_paper_ids", out |-> <<>>, offset |-> 0,
                  visited |-> <<>>]
    /\ UNCHANGED <<files, graph>>

\* one pass of the while loop, lines 117-131, on the page the server
\* returns
FetchPage ==
    /\ phase = "paging"
    /\ Len(result.visited) < MaxPages
    /\ \E page \in Pages :
          /\ Len(result.visited) = MaxPages - 1 => page.next = NoNext
          /\ LET taken == TakeIds(result.out, page.data, args.max_results)
                 request == [limit |-> args.per_page, offset |-> result.offset,
                             page |-> page]
             IN  /\ result' = [result EXCEPT
                                 !.out = taken.out,
                                 !.visited = Append(@, request),
                                 !.offset = IF taken.returned \/ page.next = NoNext
                                            THEN @ ELSE page.next]
                 /\ phase' = IF taken.returned \/ page.next = NoNext
                             THEN "listed" ELSE "paging"
    /\ UNCHANGED <<files, graph, args>>

\* _request_json raises, line 119
RequestFails ==
    /\ phase = "paging"
    /\ phase' = "raised"
    /\ UNCHANGED <<files, graph, args, result>>

InitPaging ==
    /\ citationFiles = NoOverlay
    /\ paperFiles = NoOverlay
    /\ tagFiles = NoOverlay
    /\ tldrFiles = NoOverlay
    /\ tldrJaFiles = NoOverlay
    /\ authorInfoFiles = NoAuthorInfo
    /\ phase = "s2"
    /\ papers = EmptyMap
    /\ papers_keys = <<>>
    /\ cited_by = EmptyMap
    /\ cites = EmptyMap
    /\ args = NoArgs
    /\ result = NoResult

NextPaging ==
    \/ ListCitingPaperIds
    \/ FetchPage
    \/ RequestFails

SpecPaging == InitPaging /\ [][NextPaging]_vars

\* every request ends (C26), so a pass of the loop that can be made is made
SpecPagingRunning == SpecPaging /\ WF_vars(NextPaging)

(***************************************************************************)
(* Claims on the graph build (specification Spec).                         *)
(***************************************************************************)
Built == phase = "built"

NoDuplicates(s) == \A i, j \in 1..Len(s) : s[i] = s[j] => i = j

\* C1: after _load_data, for all loaded papers P and Q, if Q occurs in
\* cited_by[P] then P occurs in cites[Q].
C1_InversionCorrect ==
    Built =>
        \A P, Q \in DOMAIN papers :
            InSeq(Q, Adj(cited_by, P)) => InSeq(P, Adj(cites, Q))

\* a loaded paper cited by another loaded paper that also cites itself: both
\* edges have been inverted
C1_Witness ==
    /\ Built
    /\ \E P, Q \in DOMAIN papers :
          /\ P # Q
          /\ InSeq(Q, Adj(cited_by, P))
          /\ InSeq(Q, Adj(cited_by, Q))
          /\ InSeq(P, Adj(cites, Q))
          /\ InSeq(Q, Adj(cites, Q))

\* C2: after the build, for every p in papers, cited_by[p] and cites[p] hold
\* only identifiers that are keys of papers.
C2_ClosedOverLoaded ==
    Built =>
        \A p \in DOMAIN papers :
            /\ Range(Adj(cited_by, p)) \subseteq DOMAIN papers
            /\ Range(Adj(cites, p)) \subseteq DOMAIN papers

\* C4: after the build, no identifier occurs more than once in cited_by[p]
\* or in cites[p], for every p.
C4_NoDuplicateNeighbours ==
    Built =>
        \A p \in PaperIds :
            NoDuplicates(Adj(cited_by, p)) /\ NoDuplicates(Adj(cites, p))

\* a record is malformed when it cannot be read or, for a CitationEdge
\* record, when its list holds an element that is no identifier
MalformedCitation(rec) ==
    \/ rec.kind = "malformed"
    \/ rec.kind = "ok" /\ InSeq(BadItem, rec.citationPaperIds)

\* the identifiers of S that have a valid Paper record
WithValidPaper(S) == {p \in S : paperFiles[p].kind = "ok"}

\* C5: the loaded papers are exactly the identifiers of
\* {seed} \cup (identifiers the seed's CitationEdge record lists) that have a
\* valid Paper record (a malformed seed record may also count as listing
\* nothing, being skipped); so a paper listed only in a citing paper's
\* record is not loaded, and with the seed's record absent nothing but the
\* seed is loaded.
C5_LoadedSet ==
    Built =>
        /\ \/ DOMAIN papers =
                 WithValidPaper({BASE_PID} \cup Listed(citationFiles[BASE_PID]))
           \/ /\ MalformedCitation(citationFiles[BASE_PID])
              /\ DOMAIN papers = WithValidPaper({BASE_PID})
        /\ citationFiles[BASE_PID].kind = "missing" =>
              DOMAIN papers \subseteq {BASE_PID}

\* the statement of C5 on the stores whose seed record is absent or is a
\* list of identifiers: there it holds
LoadedSetOfReadableSeedRecord ==
    (Built /\ ~MalformedCitation(citationFiles[BASE_PID])) =>
        /\ DOMAIN papers =
              WithValidPaper({BASE_PID} \cup Listed(citationFiles[BASE_PID]))
        /\ citationFiles[BASE_PID].kind = "missing" =>
              DOMAIN papers \subseteq {BASE_PID}

WithoutMalformedCitations(cf) ==
    [p \in PaperIds |-> IF MalformedCitation(cf[p]) THEN NoFile ELSE cf[p]]

WithoutMalformedPapers(pf) ==
    [p \in PaperIds |-> IF pf[p].kind = "malformed" THEN NoFile ELSE pf[p]]

\* C6: the mappings built from a record set holding malformed records equal
\* the mappings built from the same record set with those records removed.
C6_MalformedSkipped ==
    Built =>
        LET cf == WithoutMalformedCitations(citationFiles)
            pf == WithoutMalformedPapers(paperFiles)
        IN  \E ord \in Orders(PapersToLoad(cf)) :
                Build(cf, pf, ord) =
                    [papers |-> papers, cited_by |-> cited_by, cites |-> cites]

(***************************************************************************)
(* Claims on the neighbour queries (specification SpecNeighbors).          *)
(***************************************************************************)
IdsOf(ps) == [i \in 1..Len(ps) |-> ps[i].paperId]

NonIncreasingCount(ps) ==
    \A i \in 1..(Len(ps) - 1) : ps[i].citationCount >= ps[i + 1].citationCount

\* C3: get_cited_by(seed, limit=2000) without filters returns exactly the
\* papers of the seed record's citationPaperIds that are loaded, each once,
\* in descending citationCount order.
C3_SeedRoundTrip ==
    (/\ args.op = "get_cited_by"
     /\ args.paper_id = BASE_PID
     /\ args.limit = DefaultLimit
     /\ args.filters = NoFilters) =>
        /\ Range(IdsOf(result.papers)) = Listed(citationFiles[BASE_PID]) \cap DOMAIN papers
        /\ NoDuplicates(IdsOf(result.papers))
        /\ NonIncreasingCount(result.papers)

\* the neighbour list a request reads, ranked by citationCount
Ranked(a) ==
    SortByCitationCount(LoadedPapers(
        IF a.op = "get_cites" THEN Adj(cites, a.paper_id) ELSE Adj(cited_by, a.paper_id)))

\* a paper passes the filters of a request (the year filter exists in
\* get_cited_by only)
Passes(p, a) ==
    /\ a.filters.tags # <<>> => HasAllTags(p, a.filters.tags)
    /\ a.filters.authors # <<>> => HasAllAuthors(p, a.filters.authors)
    /\ a.filters.venues # <<>> => InVenues(p, a.filters.venues)
    /\ (a.op = "get_cited_by" /\ a.filters.min_year # <<>>) =>
          NotBefore(p, a.filters.min_year)

\* C10: get_cites and get_cited_by return the papers of the top-`limit`
\* slice of the ranked neighbours that pass the filters, in the slice's
\* order: at most `limit` papers, in non-increasing citationCount order, and
\* a passing neighbour ranked beyond `limit` is not returned.
C10_LimitThenFilter ==
    result.op \in {"get_cites", "get_cited_by"} =>
        LET ranked == Ranked(args)
            slice == MapSeq(Take(ranked, args.limit), _load_tldr_data)
            passes(p) == Passes(p, args)
        IN  /\ result.papers = SelectSeq(slice, passes)
            /\ Len(result.papers) <= args.limit
            /\ NonIncreasingCount(result.papers)
            /\ \A i \in (args.limit + 1)..Len(ranked) :
                  ~InSeq(ranked[i].paperId, IdsOf(slice)) =>
                      ~InSeq(ranked[i].paperId, IdsOf(result.papers))

\* a filtered request with limit 1 answered with nothing although a
\* neighbour ranked second passes the filter
C10_Witness ==
    /\ result.op \in {"get_cites", "get_cited_by"}
    /\ args.limit = 1
    /\ args.filters.tags # <<>>
    /\ result.papers = <<>>
    /\ \E i \in 2..Len(Ranked(args)) :
          /\ Passes(_load_tldr_data(Ranked(args)[i]), args)
          /\ Ranked(args)[i].paperId # Ranked(args)[1].paperId

(***************************************************************************)
(* Claims on the title resolver (specifications SpecTitle and SpecLcs).    *)
(***************************************************************************)
\* C7: best_match_by_title(query) returns none, without an error, whenever
\* no paper is loaded or the query is empty.
C7_NoneOnEmpty ==
    (result.op = "best_match_by_title" /\ (DOMAIN papers = {} \/ args.query = <<>>)) =>
        result.outcome = "none"

Lcss(query, p) == _lcss_length(LowerStr(query), LowerStr(papers[p].title))

Lcs(query, p) == _lcs_length(LowerStr(query), LowerStr(papers[p].title))

\* paper b is ranked before paper q: higher LCSS, then higher LCS, then the
\* shorter title, then the smaller identifier
RankedBefore(query, b, q) ==
    \/ Lcss(query, b) > Lcss(query, q)
    \/ /\ Lcss(query, b) = Lcss(query, q)
       /\ \/ Lcs(query, b) > Lcs(query, q)
          \/ /\ Lcs(query, b) = Lcs(query, q)
             /\ \/ Len(papers[b].title) < Len(papers[q].title)
                \/ /\ Len(papers[b].title) = Len(papers[q].title)
                   /\ b < q

C9_LengthBounds ==
    result.op = "lengths" =>
        /\ 0 <= result.lcss
        /\ result.lcss <= result.lcs
        /\ result.lcs <= Min(Len(args.s1), Len(args.s2))
        /\ args.s1 = args.s2 => (result.lcs = Len(args.s1) /\ result.lcss = Len(args.s1))

\* two strings whose longest common substring is shorter than their longest
\* common subsequence, which is shorter than both strings
C9_Witness ==
    /\ result.op = "lengths"
    /\ 0 < result.lcss
    /\ result.lcss < result.lcs
    /\ result.lcs < Min(Len(args.s1), Len(args.s2))

(***************************************************************************)
(* Claims on the filters and the handlers (specification SpecApi).         *)
(***************************************************************************)
\* the enriched top-`limit` slice of the ranked neighbours in ids
Slice(ids, limit) ==
    MapSeq(Take(SortByCitationCount(LoadedPapers(ids)), limit), _load_tldr_data)

Superset(list, wanted) == Range(wanted) \subseteq Range(list)

\* the parsed filter lists of a get_paper request
TagsOf(a) == OptionalList(a.filters.tags)

AuthorsOf(a) == OptionalList(a.filters.authors)

VenuesOf(a) == OptionalList(a.filters.venues)

\* a get_paper request answered with the paper, filtered by tags and
\* authors at most
TagAuthorRequest ==
    /\ result.op = "get_paper"
    /\ result.status = 200
    /\ VenuesOf(args) = <<>>
    /\ args.filters.min_year = <<>>

\* C11: with a non-empty tag filter T (author filter A) a neighbour of the
\* slice is returned iff its enriched tag set (author list) is a superset
\* of T (of A), and so is a paper of the loaded set by get_papers_by_tags
\* (get_papers_by_authors); a paper with an empty tag set (author list) is
\* never returned under a non-empty filter.
C11_SupersetFilter ==
    /\ TagAuthorRequest =>
          LET T == TagsOf(args)
              A == AuthorsOf(args)
              passes(p) == /\ T # <<>> => Superset(p.tags, T)
                           /\ A # <<>> => Superset(p.authors, A)
          IN  /\ result.cites =
                    SelectSeq(Slice(Adj(cites, args.paper_id), args.limit), passes)
              /\ result.cited_by =
                    SelectSeq(Slice(Adj(cited_by, args.paper_id), args.limit), passes)
              /\ \A i \in 1..Len(result.cited_by) :
                    /\ T # <<>> => result.cited_by[i].tags # <<>>
                    /\ A # <<>> => result.cited_by[i].authors # <<>>
    /\ (result.op = "get_papers_by_tag" /\ result.status = 200
            /\ args.min_year = <<>> /\ args.limit = DefaultLimit) =>
          /\ Range(result.papers) =
                {p \in Range(EnrichedPapers) : Superset(p.tags, result.list)}
          /\ \A i \in 1..Len(result.papers) : result.papers[i].tags # <<>>
    /\ (result.op = "get_papers_by_author" /\ result.status = 200
            /\ args.min_year = <<>> /\ args.limit = DefaultLimit) =>
          /\ Range(result.papers) =
                {p \in Range(EnrichedPapers) : Superset(p.authors, result.list)}
          /\ \A i \in 1..Len(result.papers) : result.papers[i].authors # <<>>

\* a filter of two tags that keeps a neighbour with both tags and drops a
\* neighbour with one of them
C11_Witness ==
    /\ TagAuthorRequest
    /\ Len(TagsOf(args)) = 2
    /\ result.cited_by # <<>>
    /\ \E q \in Range(Slice(Adj(cited_by, args.paper_id), args.limit)) :
          /\ q.tags # <<>>
          /\ ~InSeq(q, result.cited_by)

\* a paper's venue is present and normalises like one of the terms
VenueMatches(p, terms) ==
    /\ p.venue # <<>>
    /\ \E i \in 1..Len(terms) : normalize_venue(p.venue) = normalize_venue(terms[i])

\* a get_paper request answered with the paper, filtered by venues only
VenueRequest ==
    /\ result.op = "get_paper"
    /\ result.status = 200
    /\ VenuesOf(args) # <<>>
    /\ TagsOf(args) = <<>>
    /\ AuthorsOf(args) = <<>>
    /\ args.filters.min_year = <<>>

\* the whole answer of a by-venue request
VenueScan ==
    /\ result.op = "get_papers_by_venue"
    /\ result.status = 200
    /\ args.min_year = <<>>
    /\ args.limit = DefaultLimit

\* C12: a paper passes a venue filter iff its venue is present and
\* normalises like at least one filter term; papers with the venues
\* "ICML 2023" and "ICML 2024" both match the filter ["ICML"]; two papers
\* whose venues normalise identically are both returned or both left out.
C12_VenueFilter ==
    /\ VenueRequest =>
          LET passes(p) == VenueMatches(p, VenuesOf(args))
          IN  /\ result.cites =
                    SelectSeq(Slice(Adj(cites, args.paper_id), args.limit), passes)
              /\ result.cited_by =
                    SelectSeq(Slice(Adj(cited_by, args.paper_id), args.limit), passes)
    /\ VenueScan =>
          /\ Range(result.papers) =
                {p \in Range(EnrichedPapers) : VenueMatches(p, result.list)}
          /\ InSeq(<<"ICML">>, result.list) =>
                \A p \in Range(EnrichedPapers) :
                    p.venue \in {<<"ICML", "2023">>, <<"ICML", "2024">>} =>
                        InSeq(p, result.papers)
          /\ \A p, q \in Range(EnrichedPapers) :
                (/\ p.venue # <<>>
                 /\ q.venue # <<>>
                 /\ normalize_venue(p.venue) = normalize_venue(q.venue)) =>
                    (InSeq(p, result.papers) <=> InSeq(q, result.papers))

\* the filter ["ICML"] returns a paper of "ICML 2023" and one of "ICML 2024"
\* and leaves out a paper of another venue
C12_Witness ==
    /\ VenueScan
    /\ result.list = << <<"ICML">> >>
    /\ \E p, q \in Range(result.papers) :
          p.venue = <<"ICML", "2023">> /\ q.venue = <<"ICML", "2024">>
    /\ \E p \in Range(EnrichedPapers) : p.venue # <<>> /\ ~InSeq(p, result.papers)

\* a paper passes the tag, author and venue filters of a get_paper request
PassesLists(p, a) ==
    /\ TagsOf(a) # <<>> => Superset(p.tags, TagsOf(a))
    /\ AuthorsOf(a) # <<>> => Superset(p.authors, AuthorsOf(a))
    /\ VenuesOf(a) # <<>> => VenueMatches(p, VenuesOf(a))

\* the year of p is known and not before min_year
FromYear(p, min_year) == Len(p.year) = 1 /\ p.year[1] >= min_year[1]

ScanAnswered ==
    /\ result.op \in {"get_papers_by_tag", "get_papers_by_author", "get_papers_by_venue"}
    /\ result.status = 200

\* the papers of the loaded set a scan request asks for
Matching ==
    {p \in Range(EnrichedPapers) :
        /\ result.op = "get_papers_by_tag" => Superset(p.tags, result.list)
        /\ result.op = "get_papers_by_author" => Superset(p.authors, result.list)
        /\ result.op = "get_papers_by_venue" => VenueMatches(p, result.list)
        /\ args.min_year # <<>> => FromYear(p, args.min_year)}

\* C14: a by-tag, by-author or by-venue scan returns min(limit, number of
\* matching papers) distinct matching papers of the whole loaded set, in
\* non-increasing citationCount order, and no matching paper left out has a
\* higher citationCount than a returned one.
C14_FilterSortTruncate ==
    ScanAnswered =>
        /\ Range(result.papers) \subseteq Matching
        /\ NoDuplicates(result.papers)
        /\ Len(result.papers) = Min(args.limit, Cardinality(Matching))
        /\ NonIncreasingCount(result.papers)
        /\ \A p \in Matching \ Range(result.papers) :
              \A i \in 1..Len(result.papers) :
                  p.citationCount <= result.papers[i].citationCount

\* a scan with limit 1 and a year filter that returns the most cited match
\* although a less cited match was loaded before it
C14_Witness ==
    /\ ScanAnswered
    /\ args.limit = 1
    /\ args.min_year # <<>>
    /\ Len(result.papers) = 1
    /\ \E i, j \in 1..Len(EnrichedPapers) :
          /\ i < j
          /\ EnrichedPapers[i] \in Matching
          /\ EnrichedPapers[j] = result.papers[1]
          /\ EnrichedPapers[i].citationCount < result.papers[1].citationCount

\* C15: a by-tag or by-author request whose argument parses to an empty
\* list (empty string, or only commas and white space) is answered with the
\* client error 400 and with no papers.
C15_EmptyFilterRejected ==
    (/\ result.op \in {"get_papers_by_tag", "get_papers_by_author"}
     /\ \A i \in 1..Len(args.list) : args.list[i].name = <<>>) =>
        /\ result.status = 400
        /\ result.papers = <<>>

\* the argument " ," rejected by the by-tag handler while tagged papers
\* are loaded
C15_Witness ==
    /\ result.op = "get_papers_by_tag"
    /\ args.list = <<Field(<<>>, TRUE), Field(<<>>, FALSE)>>
    /\ result.status = 400
    /\ \E p \in Range(EnrichedPapers) : p.tags # <<>>

\* C16: getPaper on an identifier that is no key of papers is answered with
\* 404 and no paper; getPaper on a loaded paper is answered with 200 and the
\* enriched paper, with empty cites and cited_by lists when the paper has no
\* neighbours.
C16_NotFoundIsExplicit ==
    result.op = "get_paper" =>
        IF args.paper_id \in DOMAIN papers
        THEN /\ result.status = 200
             /\ result.paper = <<_load_tldr_data(papers[args.paper_id])>>
             /\ Adj(cites, args.paper_id) = <<>> => result.cites = <<>>
             /\ Adj(cited_by, args.paper_id) = <<>> => result.cited_by = <<>>
        ELSE /\ result.status = 404
             /\ result.paper = <<>>

\* a request for an identifier that is not loaded answered with 404, in a
\* corpus whose seed is loaded without neighbours, so that the same request
\* for the seed is answered with the seed and two empty lists
C16_Witness ==
    /\ result.op = "get_paper"
    /\ result.status = 404
    /\ BASE_PID \in DOMAIN papers
    /\ LET seed == get_paper_handler(BASE_PID, args.limit, args.filters.tags,
                                     args.filters.authors, args.filters.venues,
                                     args.filters.min_year)
       IN  /\ seed.status = 200
           /\ seed.paper # <<>>
           /\ seed.cites = <<>>
           /\ seed.cited_by = <<>>
    /\ Adj(cites, BASE_PID) = <<>>
    /\ Adj(cited_by, BASE_PID) = <<>>

(***************************************************************************)
(* Claims on the enrichment merge (specification SpecMerge).               *)
(***************************************************************************)
\* the overlay record of paper id in a folder exists
Exists(folder, id) == folder[id].kind # "missing"

\* C17: _load_tldr_data leaves the Paper stored in papers as the build
\* stored it; applied to its own output it returns what it returned for the
\* base Paper; and its output differs from the base Paper in the fields
\* tldr, tldr_ja and tags at most, in each only when the overlay record of
\* that field exists.
C17_MergePureIdempotent ==
    result.op = "_load_tldr_data" =>
        LET base == papers[args.paper_id]
            once == _load_tldr_data(base)
        IN  /\ papers = LoadPapers(paperFiles, PapersToLoad(citationFiles))
            /\ base = paperFiles[args.paper_id]
            /\ result.paper = once
            /\ [once EXCEPT !.tldr = base.tldr, !.tldr_ja = base.tldr_ja,
                            !.tags = base.tags] = base
            /\ once.tldr # base.tldr => Exists(tldrFiles, base.paperId)
            /\ once.tldr_ja # base.tldr_ja => Exists(tldrJaFiles, base.paperId)
            /\ once.tags # base.tags => Exists(tagFiles, base.paperId)

\* the merge applied to its own output, for a base Paper with tags of its
\* own whose TagSet record holds other tags and whose summary record is
\* unreadable
C17_Witness ==
    /\ phase = "merged again"
    /\ papers[args.paper_id].tags # <<>>
    /\ result.paper.tags # papers[args.paper_id].tags
    /\ result.paper.tags # <<>>
    /\ tldrFiles[args.paper_id].kind = "malformed"
    /\ result.paper.tldr_ja # <<>>

(***************************************************************************)
(* Claims on the service (specification SpecService)                       *)
(***************************************************************************)
\* the answer of the request a, computed on the graph of the current state
Answer(a) ==
    CASE a.op = "search" ->
            search(a.query, a.limit, a.filters.tags, a.filters.authors,
                   a.filters.venues, a.filters.min_year)
      [] a.op = "get_paper" ->
            get_paper_handler(a.paper_id, a.limit, a.filters.tags, a.filters.authors,
                              a.filters.venues, a.filters.min_year)
      [] a.op = "get_papers_by_tag" -> get_papers_by_tag(a.list, a.limit, a.min_year)
      [] a.op = "get_papers_by_author" ->
            get_papers_by_author(a.list, a.limit, a.min_year)
      [] a.op = "get_papers_by_venue" ->
            get_papers_by_venue(a.list, a.limit, a.min_year)
      [] a.op = "get_all_tags" -> get_all_tags
      [] a.op = "get_all_authors" -> get_all_authors
      [] a.op = "get_all_venues" -> get_all_venues
      [] a.op = "get_author_ranking" ->
            get_author_ranking_handler(a.sort_by, a.min_year)
      [] a.op = "get_all_papers" -> get_all_papers

\* C18: once the graph is built, no step of the service changes papers,
\* cited_by or cites (nor the order of the papers), and each request, run
\* after any sequence of earlier requests, is answered as it is answered on
\* the graph the build produced.
C18_GraphReadOnly ==
    [][phase # "start" =>
          /\ UNCHANGED graph
          /\ (phase' = "served" => result' = Answer(args'))]_vars

\* a getPaper request has been answered with citing papers, and the server
\* is ready for the next request
C18_Witness ==
    /\ phase = "built"
    /\ result.op = "get_paper"
    /\ result.status = 200
    /\ Len(result.cited_by) = 1
    /\ args.limit = 1
    /\ Len(cited_by[args.paper_id]) > 1

(***************************************************************************)
(* Claims on normalize_venue (specification SpecVenue)                     *)
(***************************************************************************)
\* C19: normalize_venue is idempotent: normalising the result of
\* normalize_venue again gives the same string, for every venue string,
\* also one with two or more adjacent year or ordinal tokens.
C19_Idempotent ==
    phase = "normalized again" => result.venue = result.once

\* C20: the result of normalize_venue holds no standalone four-digit year
\* token (with or without a two-digit range suffix) and no standalone
\* ordinal token, wherever the token stood in the input.
C20_NoYearNoOrdinal ==
    phase = "normalized" =>
        \A i \in 1..Len(result.venue) :
            result.venue[i] \notin YearTokens \cup OrdinalTokens

\* the venue holds no short year, and every token of it that is not a word
\* stands between words (or between a word and an end of the string)
TokensApart(venue) ==
    /\ Len(venue) > 1
    /\ \A i \in 1..Len(venue) :
          venue[i] \notin WordTokens =>
              /\ venue[i] \notin ShortYearTokens
              /\ (i > 1 => venue[i - 1] \in WordTokens)
              /\ (i < Len(venue) => venue[i + 1] \in WordTokens)

\* on such venues the result holds words only and is a fixed point
NormalizedWhenTokensApart ==
    (phase = "normalized again" /\ TokensApart(args.venue)) =>
        /\ result.venue = result.once
        /\ \A i \in 1..Len(result.venue) : result.venue[i] \in WordTokens

(***************************************************************************)
(* Claims on the aggregates and the ranking (specification SpecRanking)    *)
(***************************************************************************)
\* the occurrences of key in s
OccurrencesIn(s, key) == Cardinality({i \in 1..Len(s) : s[i] = key})

RECURSIVE SumOver(_, _)
SumOver(S, f) ==
    IF S = {} THEN 0
    ELSE LET x == CHOOSE y \in S : TRUE IN f[x] + SumOver(S \ {x}, f)

\* the occurrences of a tag, an author and a normalised venue over the
\* loaded papers
TagOccurrences(key) ==
    SumOver(1..Len(EnrichedPapers),
            [i \in 1..Len(EnrichedPapers) |-> OccurrencesIn(EnrichedPapers[i].tags, key)])

AuthorOccurrences(key) ==
    SumOver(1..Len(EnrichedPapers),
            [i \in 1..Len(EnrichedPapers) |->
                OccurrencesIn(EnrichedPapers[i].authors, key)])

VenueOccurrences(key) ==
    SumOver(1..Len(EnrichedPapers),
            [i \in 1..Len(EnrichedPapers) |->
                IF EnrichedPapers[i].venue # <<>>
                       /\ normalize_venue(EnrichedPapers[i].venue) = key
                THEN 1 ELSE 0])

AllTagsOfPapers == UNION {Range(EnrichedPapers[i].tags) : i \in 1..Len(EnrichedPapers)}

AllAuthorsOfPapers ==
    UNION {Range(EnrichedPapers[i].authors) : i \in 1..Len(EnrichedPapers)}

AllVenuesOfPapers ==
    {normalize_venue(EnrichedPapers[i].venue) : i \in 1..Len(EnrichedPapers)} \ {<<>>}

\* C21: get_all_tags, get_all_authors and get_all_venues return one entry
\* for each distinct tag, author and non-empty normalised venue, with the
\* number of its occurrences over the loaded papers; the tags ascend
\* alphabetically, the counts of authors and of venues never increase.
C21_Aggregates ==
    /\ result.op = "get_all_tags" =>
          LET e == result.tags
          IN  /\ {e[i].tag : i \in 1..Len(e)} = AllTagsOfPapers
              /\ \A i \in 1..Len(e) : e[i].count = TagOccurrences(e[i].tag)
              /\ \A i, j \in 1..Len(e) : i < j => TagRank(e[i].tag) < TagRank(e[j].tag)
    /\ result.op = "get_all_authors" =>
          LET e == result.authors
          IN  /\ {e[i].author : i \in 1..Len(e)} = AllAuthorsOfPapers
              /\ \A i \in 1..Len(e) : e[i].count = AuthorOccurrences(e[i].author)
              /\ \A i, j \in 1..Len(e) :
                    i < j => e[i].author # e[j].author /\ e[i].count >= e[j].count
    /\ result.op = "get_all_venues" =>
          LET e == result.venues
          IN  /\ {e[i].venue : i \in 1..Len(e)} = AllVenuesOfPapers
              /\ \A i \in 1..Len(e) : e[i].count = VenueOccurrences(e[i].venue)
              /\ \A i, j \in 1..Len(e) :
                    i < j => e[i].venue # e[j].venue /\ e[i].count >= e[j].count

\* the authors were listed with two names; the one the scan met second has
\* the higher count and stands first
C21_Witness ==
    /\ result.op = "get_all_authors"
    /\ Len(result.authors) = 2
    /\ result.authors[1].count > result.authors[2].count
    /\ result.authors[1].author = "Ding"
    /\ papers[papers_keys[1]].authors[1] = "Kraska"

\* the loaded papers the ranking counts: all of them when min_year is
\* absent, else those with a known year that is not below min_year
CountedPapers(min_year) ==
    {i \in 1..Len(EnrichedPapers) :
        \/ min_year = <<>>
        \/ /\ EnrichedPapers[i].year # <<>>
           /\ EnrichedPapers[i].year[1] >= min_year[1]}

\* C22: in the author ranking every counted paper adds 1 to paperCount and
\* its citationCount to totalCitations for each entry of its author list,
\* and nothing to any other author; the ranked authors are the authors of
\* the counted papers, and paperCount summed over them is the summed length
\* of the author lists of the counted papers.
C22_AuthorRanking ==
    result.op = "get_author_ranking" =>
        LET r == result.ranking
            counted == CountedPapers(args.min_year)
            entries(a) == [i \in counted |-> OccurrencesIn(EnrichedPapers[i].authors, a)]
            citations(a) ==
                [i \in counted |->
                    OccurrencesIn(EnrichedPapers[i].authors, a)
                        * EnrichedPapers[i].citationCount]
        IN  /\ {r[k].author : k \in 1..Len(r)} =
                  UNION {Range(EnrichedPapers[i].authors) : i \in counted}
            /\ \A k, l \in 1..Len(r) : k # l => r[k].author # r[l].author
            /\ \A k \in 1..Len(r) :
                  /\ r[k].paperCount = SumOver(counted, entries(r[k].author))
                  /\ r[k].totalCitations = SumOver(counted, citations(r[k].author))
            /\ SumOver(1..Len(r), [k \in 1..Len(r) |-> r[k].paperCount]) =
                  SumOver(counted, [i \in counted |-> Len(EnrichedPapers[i].authors)])

\* a ranking from a year on that leaves out a paper with authors, and in
\* which an author has papers and citations
C22_Witness ==
    /\ result.op = "get_author_ranking"
    /\ args.min_year # <<>>
    /\ \E i \in 1..Len(EnrichedPapers) :
          i \notin CountedPapers(args.min_year) /\ EnrichedPapers[i].authors # <<>>
    /\ \E k \in 1..Len(result.ranking) :
          result.ranking[k].paperCount > 1 /\ result.ranking[k].totalCitations > 0

(***************************************************************************)
(* Claims on the tag collector (specifications SpecTagsRunning, ...)       *)
(***************************************************************************)
\* every tag of S that has parents has all of them in S
ClosedUnderHierarchy(S) ==
    \A tag \in S \cap DOMAIN HIERARCHY :
        \A i \in 1..Len(HIERARCHY[tag]) : HIERARCHY[tag][i] \in S

ParentTags == UNION {Range(HIERARCHY[tag]) : tag \in DOMAIN HIERARCHY}

\* the tags that every closed superset of S holds
SmallestClosedSuperset(S) ==
    LET closedSupersets == {S \cup X : X \in {Y \in SUBSET ParentTags :
                                                 ClosedUnderHierarchy(S \cup Y)}}
    IN  {tag \in S \cup ParentTags : \A T \in closedSupersets : tag \in T}

\* the longest chain of HIERARCHY has two links
HierarchyDepth == 2

\* C23: apply_hierarchy ends on every tag list, after at most one pass more
\* than HIERARCHY is deep; it returns the smallest superset of the tags that
\* is closed under HIERARCHY, and applied to what it returned it returns the
\* same set.
C23_HierarchyClosure ==
    /\ [](/\ phase \in {"closed", "closed again"} =>
                /\ result.result_tags = SmallestClosedSuperset(Range(args.tags))
                /\ ClosedUnderHierarchy(result.result_tags)
                /\ result.passes <= HierarchyDepth + 1
          /\ phase = "closed again" => result.result_tags = result.first)
    /\ (phase = "tags" ~> phase = "closed")
    /\ (phase = "closed" ~> phase = "closed again")

\* "Learned Bloom Filter" alone has given itself, "Learned Index", "Bloom
\* Filter" and "Filter", in three passes
C23_Witness ==
    /\ phase = "closed"
    /\ args.tags = <<"Learned Bloom Filter">>
    /\ result.result_tags =
          {"Learned Bloom Filter", "Learned Index", "Bloom Filter", "Filter"}
    /\ result.passes = 3

\* a tag list is sorted, and so without duplicates, when the ranks of its
\* tags ascend strictly
StrictlySorted(tags) ==
    \A i, j \in 1..Len(tags) : i < j => TagRank(tags[i]) < TagRank(tags[j])

\* C24: every TagSet record the tag collector writes holds a tag list that
\* is not empty, is sorted, has no duplicates, holds tags of ALL_TAGS only
\* and is closed under HIERARCHY.
C24_WrittenTagSets ==
    [][\A p \in PaperIds :
          tagFiles'[p] # tagFiles[p] =>
              /\ tagFiles'[p].kind = "ok"
              /\ tagFiles'[p].tags # <<>>
              /\ StrictlySorted(tagFiles'[p].tags)
              /\ Range(tagFiles'[p].tags) \subseteq Range(ALL_TAGS)
              /\ ClosedUnderHierarchy(Range(tagFiles'[p].tags))]_vars

\* the collector has run to its end and has written a TagSet with the four
\* tags that "Learned Bloom Filter" implies
C24_Witness ==
    /\ phase = "collected"
    /\ result.success_count > 0
    /\ \E p \in PaperIds :
          /\ tagFiles[p].kind = "ok"
          /\ tagFiles[p].tags =
                <<"Bloom Filter", "Filter", "Learned Bloom Filter", "Learned Index">>

(***************************************************************************)
(* Claims on the collector of papers (specifications SpecSave, ...)        *)
(***************************************************************************)
\* C25: Paper and CitationEdge records are written once: a save for an
\* identifier without a record stores the value it is called with, a save
\* for an identifier with a record changes nothing, and no save touches
\* the record of another identifier; so after any sequence of saves a
\* record is the value of the first save for its identifier.
C25_WriteOnce ==
    [][/\ \A p \in PaperIds :
             /\ FileExists(paperFiles, p) => paperFiles'[p] = paperFiles[p]
             /\ FileExists(citationFiles, p) => citationFiles'[p] = citationFiles[p]
       /\ \A p \in PaperIds :
             /\ (paperFiles'[p] # paperFiles[p]) =>
                    /\ args'.op = "save_paper_metadata"
                    /\ args'.pid = p
                    /\ paperFiles'[p] = args'.value
             /\ (citationFiles'[p] # citationFiles[p]) =>
                    /\ args'.op = "save_citing_paper_ids"
                    /\ args'.pid = p
                    /\ citationFiles'[p] = args'.value
       /\ (args'.op = "save_paper_metadata" /\ ~FileExists(paperFiles, args'.pid)) =>
             paperFiles'[args'.pid] = args'.value
       /\ (args'.op = "save_citing_paper_ids"
               /\ ~FileExists(citationFiles, args'.pid)) =>
             citationFiles'[args'.pid] = args'.value]_vars

\* a save was called with a value other than the record its identifier
\* already has, and the record is still the one stored first
C25_Witness ==
    /\ phase = "saved"
    /\ args.op = "save_paper_metadata"
    /\ paperFiles[args.pid].kind = "ok"
    /\ paperFiles[args.pid] # args.value
    /\ citationFiles[BASE_PID].kind = "ok"

\* C27: list_citing_paper_ids_if_not_exists returns, on the call that
\* finds the CitationEdge record stored, the list it returned on the call
\* that fetched and stored it; so collect_citing_paper_metadata_list goes
\* through the same identifiers on a resumed run as on the first run.
C27_SameListWhenStored ==
    /\ (phase = "listed again" /\ result.pid = result.first.pid
           /\ result.first.value.type = "list") =>
          result.value = result.first.value
    /\ (phase = "collected again" /\ result.pid = result.first.pid
           /\ result.first.value.type = "list") =>
          /\ result.value = result.first.value
          /\ result.iterated = result.first.iterated

(***************************************************************************)
(* Claims on the HTTP clients (specifications SpecRetry, SpecRetryRunning).*)
(***************************************************************************)
\* the statuses the contract names for a retry
RetriedStatuses == {429, 500, 502, 503, 504}

InCall == phase \in {"requesting", "returned", "raised"}

\* a pass of the loop that follows an earlier pass of the same call
IsRetry == phase = "requesting" /\ result.attempts >= 1
             /\ result'.attempts = result.attempts + 1

\* the parts of the contract that hold of every response: at most
\* _MAX_RETRIES attempts, an end at once on a status that is neither 200
\* nor one of the retry statuses, an error after the last attempt, and an
\* end of every call
BoundedRetries ==
    /\ [](InCall => result.attempts <= _MAX_RETRIES)
    /\ [](InCall /\ result.last.status \notin RetriedStatuses \cup {200, NETWORK_ERROR}
            => /\ result.outcome # "pending"
               /\ result.client = "semantic_scholar" =>
                     result.outcome = "raised" /\ result.error = "status"
               /\ result.client = "openalex" =>
                     result.outcome = "returned" /\ result.value = "{}")
    /\ [](InCall /\ result.error = "retries" =>
            /\ result.attempts = _MAX_RETRIES
            /\ result.outcome = "raised")
    /\ (phase = "requesting" /\ result.attempts = _MAX_RETRIES)
          ~> (phase = "raised" /\ result.error = "retries")
    /\ phase = "requesting" ~> phase \in {"returned", "raised"}

\* C26 as stated: every call to _request_json of either client ends after
\* at most _MAX_RETRIES attempts; it returns the body of the first 200
\* response, retries only on status 429/500/502/503/504 or a network
\* exception, stops at once on any other status, and fails with an error
\* when all attempts are used up.
C26_AsStated ==
    /\ BoundedRetries
    /\ [](InCall /\ result.last.status = 200 =>
            result.outcome = "returned" /\ result.value = result.last.body)
    /\ [][IsRetry => result.last.status \in RetriedStatuses \cup {NETWORK_ERROR}]_vars

\* C26 amended: every call to _request_json of either client ends after at
\* most _MAX_RETRIES attempts; it returns the body of the first 200
\* response whose body parses as JSON; a 200 response whose body does not
\* parse either raises at once or is retried like a network exception,
\* as the requests library in use decides; it retries on nothing else but
\* status 429/500/502/503/504 and network exceptions, stops at once on any
\* other status, and fails with an error when all attempts are used up.
C26_BoundedRetries ==
    /\ BoundedRetries
    /\ [](InCall /\ IsOk(result.last) =>
            result.outcome = "returned" /\ result.value = result.last.body)
    /\ [](InCall /\ result.last.status = 200 /\ ~result.last.parses =>
            IF result.json_error = "RequestException"
            THEN result.outcome = "pending"
                   \/ (result.outcome = "raised" /\ result.error = "retries")
            ELSE result.outcome = "raised" /\ result.error = "json")
    /\ [][IsRetry =>
            \/ result.last.status \in RetriedStatuses \cup {NETWORK_ERROR}
            \/ /\ result.last.status = 200
               /\ ~result.last.parses
               /\ result.json_error = "RequestException"]_vars

\* a call that was retried up to the last attempt and then got a body
C26_Witness ==
    /\ phase = "returned"
    /\ result.attempts = _MAX_RETRIES
    /\ IsOk(result.last)
    /\ result.value = result.last.body

(***************************************************************************)
(* Claims on the filter (specification SpecFilter).                        *)
(***************************************************************************)
\* the seed's CitationEdge record is absent, or holds a list of identifiers
SeedRecordAbsentOrReadable ==
    \/ citationFiles[BASE_PID].kind = "missing"
    \/ /\ citationFiles[BASE_PID].kind = "ok"
       /\ ~InSeq(BadItem, citationFiles[BASE_PID].citationPaperIds)

\* {seed} and the seed's citationPaperIds
WorkingSet == {BASE_PID} \cup Listed(citationFiles[BASE_PID])

KeptExactly(before, after) ==
    \A p \in PaperIds : after[p] = IF p \in WorkingSet THEN before[p] ELSE NoFile

InListing == phase \in {"paging", "listed"}

\* the non-empty identifiers of the pages visited, in page order
RECURSIVE IdsOfPages(_)
IdsOfPages(visited) ==
    IF visited = <<>>
    THEN <<>>
    ELSE LET nonEmpty(x) == x # ""
         IN  SelectSeq(Head(visited).page.data, nonEmpty) \o IdsOfPages(Tail(visited))

IsPrefix(s, u) == Len(s) <= Len(u) /\ \A i \in 1..Len(s) : s[i] = u[i]

\* the first request asks for offset 0, each later one for the `next` of
\* the page before it, and no page before the last lacks `next`
FollowsNext ==
    InListing =>
      \A i \in 1..Len(result.visited) :
         /\ result.visited[i].offset =
               IF i = 1 THEN 0 ELSE result.visited[i - 1].page.next
         /\ i < Len(result.visited) => result.visited[i].page.next # NoNext

\* without a limit the list returned is every identifier of every page
\* visited; with one it is the beginning of that list
ReturnsIdsInPageOrder ==
    InListing =>
      /\ IsPrefix(result.out, IdsOfPages(result.visited))
      /\ (phase = "listed" /\ args.max_results = NoLimit) =>
            /\ result.out = IdsOfPages(result.visited)
            /\ result.visited[Len(result.visited)].page.next = NoNext

\* the call ends, given that the server sends a page without `next` by
\* its MaxPages-th answer
PagingEnds == phase = "paging" ~> phase \in {"listed", "raised"}

\* with a limit of at least one the list is never longer than the limit
AtMostLimitWhenPositive ==
    (InListing /\ args.max_results >= 1) => Len(result.out) <= args.max_results

\* C29: list_citing_paper_ids follows the `next` offsets page by page and
\* stops at the first response without `next`; it returns, in page order,
\* every non-empty citingPaper.paperId of every page visited; with
\* max_results = k it never returns more than k identifiers; it ends
\* whenever the server eventually returns a page without `next`.
C29_Paging ==
    /\ []FollowsNext
    /\ []ReturnsIdsInPageOrder
    /\ [](InListing /\ args.max_results # NoLimit =>
            Len(result.out) <= args.max_results)
    /\ PagingEnds

\* the same without the limit of zero
PagingWithPositiveLimit ==
    /\ []FollowsNext
    /\ []ReturnsIdsInPageOrder
    /\ []AtMostLimitWhenPositive
    /\ PagingEnds

(***************************************************************************)
(* The two mappings of the build against the working set (specification    *)
(* Spec).                                                                  *)
(***************************************************************************)
\* every identifier that is a key or an element of a list of the mapping
IdsIn(m) == DOMAIN m \cup UNION {Range(m[p]) : p \in DOMAIN m}

\* C30: after a build in which the seed's CitationEdge record is readable,
\* every identifier other than the seed that occurs in cited_by[seed] has
\* the seed in its cites list, and every identifier that occurs anywhere in
\* cited_by or cites is the seed or is listed in the seed's
\* citationPaperIds.
C30_EdgesWithinWorkingSet ==
    (phase = "built" /\ citationFiles[BASE_PID].kind = "ok") =>
      /\ \A q \in Range(Adj(cited_by, BASE_PID)) \ {BASE_PID} :
            InSeq(BASE_PID, Adj(cites, q))
      /\ IdsIn(cited_by) \cup IdsIn(cites)
            \subseteq {BASE_PID} \cup Listed(citationFiles[BASE_PID])

\* a build that recorded a citing paper of the seed and dropped, from the
\* list of that paper, an identifier outside the working set
C30_Witness ==
    /\ phase = "built"
    /\ citationFiles[BASE_PID].kind = "ok"
    /\ BASE_PID + 1 \in Range(Adj(cited_by, BASE_PID))
    /\ InSeq(BASE_PID, Adj(cites, BASE_PID + 1))
    /\ citationFiles[BASE_PID + 1].kind = "ok"
    /\ \E x \in Listed(citationFiles[BASE_PID + 1]) :
          x \notin {BASE_PID} \cup Listed(citationFiles[BASE_PID])
    /\ BASE_PID + 1 \in DOMAIN cited_by

====
